---- MODULE Spec2Model ----
(***************************************************************************)
(* A model of the MAAIS runtime: the policy engine                         *)
(* (core/engine/policy_engine.py) and the hash-chained audit logger        *)
(* (core/engine/audit_logger.py).                                          *)
(*                                                                         *)
(* Strings that regular expressions are applied to are sequences of        *)
(* one-character strings; a pattern is a sequence of tokens: a literal     *)
(* character, "." (any character), "*" (repeat the token before it) and    *)
(* "(" (an unbalanced parenthesis).                                        *)
(***************************************************************************)
EXTENDS Integers, Sequences, FiniteSets, TLC

\* ------------------------------------------------------------------ bounds
MaxEvals == 2
MaxTime == 3
MaxReloads == 1

\* policy_engine.py:138  condition.get("window_seconds", 60)
DefaultWindow == 60

None == "None"
RAISE == "RAISE"

\* ------------------------------------------------------------------ data
Agents == {"a1", "a2"}
ActionTypes == {"tool_call", "file_read"}
TargetAB == <<"a", "b">>
TargetB == <<"b">>
Targets == {TargetAB, TargetB}
Id1 == <<"1">>
Id2 == <<"2">>

NoParams == [k \in {} |-> <<>>]
UrlParams == [k \in {"url"} |-> TargetB]

ActionRequest(ag, ty, tg, id, ps) ==
    [agent_id |-> ag, action_type |-> ty, target |-> tg, action_id |-> id,
     parameters |-> ps]

Actions ==
    {ActionRequest(ag, ty, tg, Id1, NoParams) :
        ag \in Agents, ty \in ActionTypes, tg \in Targets}
    \cup {ActionRequest("a1", "tool_call", TargetAB, Id2, NoParams),
          ActionRequest("a1", "tool_call", TargetAB, Id1, UrlParams)}

\* ------------------------------------------------------ condition language
\* One entry of a condition dict, in the dict's (file) order.
Item(key, kind, arg, items, max, window, keyf, subs, params) ==
    [key |-> key, kind |-> kind, arg |-> arg, items |-> items, max |-> max,
     window |-> window, keyf |-> keyf, subs |-> subs, params |-> params]

CTargetStr(s) == Item("target", "str", s, {}, 0, 0, "", <<>>, <<>>)
CTargetIn(S) == Item("target", "in", <<>>, S, 0, 0, "", <<>>, <<>>)
CTargetList(S) == Item("target", "list", <<>>, S, 0, 0, "", <<>>, <<>>)
CTargetPattern(p) == Item("target", "pattern", p, {}, 0, 0, "", <<>>, <<>>)
CTargetOther == Item("target", "other", <<>>, {}, 0, 0, "", <<>>, <<>>)
CPattern(p) == Item("pattern", "pattern", p, {}, 0, 0, "", <<>>, <<>>)
CRate(n, w, kf) == Item("rate_limit", "int", <<>>, {}, n, w, kf, <<>>, <<>>)
CRateBadMax == Item("rate_limit", "badmax", <<>>, {}, 0, DefaultWindow, "agent_id", <<>>, <<>>)
COr(subs) == Item("or", "", <<>>, {}, 0, 0, "", subs, <<>>)
CAnd(subs) == Item("and", "", <<>>, {}, 0, 0, "", subs, <<>>)
CParams(ps) == Item("parameters", "", <<>>, {}, 0, 0, "", <<>>, ps)
CUnknown(k) == Item(k, "", <<>>, {}, 0, 0, "", <<>>, <<>>)

\* One entry of a `parameters` condition.
PCond(pkey, kind, arg, items) ==
    [pkey |-> pkey, kind |-> kind, arg |-> arg, items |-> items]

PolicyRule(id, applies, cond, dec, prio) ==
    [id |-> id, applies_to |-> applies, condition |-> cond, decision |-> dec,
     priority |-> prio]

\* ------------------------------------------------------------------ regex
CharMatch(tok, c) == tok = "." \/ tok = c

\* re.compile fails: an unbalanced "(", or a "*" with nothing to repeat.
ReCompileError(p) ==
    \E i \in 1..Len(p) :
        \/ p[i] = "("
        \/ p[i] = "*" /\ (i = 1 \/ p[i - 1] = "*")

RECURSIVE MatchHere(_, _)
MatchHere(re, text) ==
    IF re = <<>> THEN TRUE
    ELSE IF Len(re) >= 2 /\ re[2] = "*"
    THEN \E k \in 0..Len(text) :
            /\ \A j \in 1..k : CharMatch(re[1], text[j])
            /\ MatchHere(SubSeq(re, 3, Len(re)), SubSeq(text, k + 1, Len(text)))
    ELSE /\ Len(text) >= 1
         /\ CharMatch(re[1], text[1])
         /\ MatchHere(Tail(re), Tail(text))

\* re.match(pattern, string): anchored at the start, not at the end.
ReMatch(p, s) ==
    IF ReCompileError(p) THEN "raise"
    ELSE IF MatchHere(p, s) THEN "true" ELSE "false"

Bool(b) == IF b THEN "true" ELSE "false"

\* --------------------------------------------------------------- matching
PolicyApplies(policy, action) ==
    \/ "*" \in policy.applies_to
    \/ action.action_type \in policy.applies_to

MatchTarget(c, target) ==
    CASE c.kind = "str" -> Bool(c.arg = target)
      [] c.kind = "in" -> Bool(target \in c.items)
      [] c.kind = "pattern" -> ReMatch(c.arg, target)
      [] c.kind = "list" -> Bool(target \in c.items)
      [] OTHER -> "false"

RECURSIVE MatchParametersFrom(_, _, _)
MatchParametersFrom(pcs, i, parameters) ==
    IF i > Len(pcs) THEN "true"
    ELSE LET pc == pcs[i] IN
         IF pc.pkey \notin DOMAIN parameters THEN "false"
         ELSE LET v == parameters[pc.pkey]
                  r == CASE pc.kind = "pattern" -> ReMatch(pc.arg, v)
                         [] pc.kind = "in" -> Bool(v \in pc.items)
                         [] pc.kind = "dict" -> "true"
                         [] OTHER -> Bool(v = pc.arg)
              IN IF r = "true" THEN MatchParametersFrom(pcs, i + 1, parameters)
                 ELSE r

MatchParameters(pcs, parameters) == MatchParametersFrom(pcs, 1, parameters)

\* The key of a rate counter: f"rl:{agent_id}:{target}", f"rl:target:{target}"
\* or f"rl:action:{action_id}".
RateKey(keyf, action) ==
    IF keyf = "agent_id" THEN <<"rl", action.agent_id, action.target>>
    ELSE IF keyf = "target" THEN <<"rl", "target", action.target>>
    ELSE <<"rl", "action", action.action_id>>

KeyFields == {"agent_id", "target", "action_id"}
RateKeys == {RateKey(kf, a) : kf \in KeyFields, a \in Actions}

\* self._rate_counters: an absent key reads as the empty list.
NoCounters == [k \in RateKeys |-> <<>>]
\* The engine's mutable memory: the counters, and the history of rate-limit
\* observations (one per evaluation of a rate_limit condition that records).
FreshMem == [ctr |-> NoCounters, obs |-> <<>>]

Observation(c, action, now, res) ==
    [keyf |-> IF c.keyf \in {"agent_id", "target"} THEN c.keyf ELSE "action_id",
     agent_id |-> action.agent_id, target |-> action.target,
     action_id |-> action.action_id, time |-> now, max |-> c.max,
     window |-> c.window, res |-> res]

MatchRateLimit(c, action, mem, now) ==
    IF c.kind = "badmax" THEN [res |-> "false", mem |-> mem]
    ELSE IF c.max <= 0 THEN [res |-> "true", mem |-> mem]
    ELSE LET key == RateKey(c.keyf, action)
             window_start == now - c.window
             pruned == SelectSeq(mem.ctr[key], LAMBDA t : t >= window_start)
             timestamps == Append(pruned, now)
             res == Bool(Len(timestamps) >= c.max)
         IN [res |-> res,
             mem |-> [ctr |-> [mem.ctr EXCEPT ![key] = timestamps],
                      obs |-> Append(mem.obs, Observation(c, action, now, res))]]

RECURSIVE ConditionsFrom(_, _, _, _, _)
RECURSIVE MatchOrFrom(_, _, _, _, _)
RECURSIVE MatchAndFrom(_, _, _, _, _)

\* _conditions_match: the entries in order; the first that fails ends it.
ConditionsFrom(cond, i, action, mem, now) ==
    IF i > Len(cond) THEN [res |-> "true", mem |-> mem]
    ELSE LET c == cond[i]
             r == CASE c.key = "target" ->
                         [res |-> MatchTarget(c, action.target), mem |-> mem]
                    [] c.key = "parameters" ->
                         [res |-> MatchParameters(c.params, action.parameters),
                          mem |-> mem]
                    [] c.key = "rate_limit" -> MatchRateLimit(c, action, mem, now)
                    [] c.key = "or" -> MatchOrFrom(c.subs, 1, action, mem, now)
                    [] c.key = "and" -> MatchAndFrom(c.subs, 1, action, mem, now)
                    [] c.key = "pattern" ->
                         [res |-> ReMatch(c.arg, action.target), mem |-> mem]
                    [] OTHER -> [res |-> "true", mem |-> mem]
         IN IF r.res = "true" THEN ConditionsFrom(cond, i + 1, action, r.mem, now)
            ELSE r

\* PolicyRule(**{"condition": condition}) is taken to construct a rule that
\* holds the sub-condition.
MatchOrFrom(subs, j, action, mem, now) ==
    IF j > Len(subs) THEN [res |-> "false", mem |-> mem]
    ELSE LET r == ConditionsFrom(subs[j], 1, action, mem, now)
         IN IF r.res = "false" THEN MatchOrFrom(subs, j + 1, action, r.mem, now)
            ELSE r

MatchAndFrom(subs, j, action, mem, now) ==
    IF j > Len(subs) THEN [res |-> "true", mem |-> mem]
    ELSE LET r == ConditionsFrom(subs[j], 1, action, mem, now)
         IN IF r.res = "true" THEN MatchAndFrom(subs, j + 1, action, r.mem, now)
            ELSE r

\* The keys _conditions_match has a branch for (lines 95-117).
KnownKeys == {"target", "parameters", "rate_limit", "or", "and", "pattern"}

\* A variant of ConditionsMatch in which a key without a branch fails the
\* match.
ConditionsMatchKnown(policy, action, mem, now) ==
    IF \E i \in 1..Len(policy.condition) : policy.condition[i].key \notin KnownKeys
    THEN [res |-> "false", mem |-> mem]
    ELSE ConditionsFrom(policy.condition, 1, action, mem, now)

ConditionsMatch(policy, action, mem, now) ==
    ConditionsFrom(policy.condition, 1, action, mem, now)

\* A matching policy ends the walk when its decision is DENY.
DeniesFirstMatch(policy, res) == res = "true"
Denies(policy, res) == res = "true" /\ policy.decision = "DENY"

TraceEntry(applies, match) == [applies |-> applies, match |-> match]

RECURSIVE EvaluateFrom(_, _, _, _, _, _)
EvaluateFrom(pols, i, action, mem, now, trace) ==
    IF i > Len(pols) THEN [result |-> None, mem |-> mem, trace |-> trace]
    ELSE IF ~PolicyApplies(pols[i], action)
    THEN EvaluateFrom(pols, i + 1, action, mem, now,
                      Append(trace, TraceEntry(FALSE, "skipped")))
    ELSE LET r == ConditionsMatch(pols[i], action, mem, now)
             tr == Append(trace, TraceEntry(TRUE, r.res))
         IN IF r.res = "raise"
            THEN [result |-> RAISE, mem |-> r.mem, trace |-> tr]
            ELSE IF Denies(pols[i], r.res)
            THEN [result |-> pols[i].id, mem |-> r.mem, trace |-> tr]
            ELSE EvaluateFrom(pols, i + 1, action, r.mem, now, tr)

EvaluateOn(pols, action, mem, now) == EvaluateFrom(pols, 1, action, mem, now, <<>>)

\* ------------------------------------------------------------ policy files
R_allow_all == PolicyRule("allow_all", {"*"}, <<>>, "ALLOW", 1)
R_review_ab == PolicyRule("review_ab", {"tool_call"}, <<CTargetStr(TargetAB)>>, "REVIEW", 1)
R_deny_ab == PolicyRule("deny_ab", {"tool_call"}, <<CTargetStr(TargetAB)>>, "DENY", 2)
R_deny_pat == PolicyRule("deny_pat", {"*"}, <<CPattern(<<"a">>)>>, "DENY", 2)
R_deny_all == PolicyRule("deny_all", {"tool_call", "file_read"}, <<>>, "DENY", 3)
R_deny_b == PolicyRule("deny_b", {"*"}, <<CTargetIn({TargetB})>>, "DENY", 1)
R_deny_badre == PolicyRule("deny_badre", {"*"}, <<CTargetPattern(<<"(">>)>>, "DENY", 2)
R_rate_agent == PolicyRule("rate_agent", {"*"}, <<CRate(2, 2, "agent_id")>>, "DENY", 1)
R_rate_allow == PolicyRule("rate_allow", {"*"}, <<CRate(1, 2, "agent_id")>>, "ALLOW", 0)
R_rate_target ==
    PolicyRule("rate_target", {"*"}, <<CRate(2, DefaultWindow, "target")>>, "DENY", 1)
R_rate_action == PolicyRule("rate_action", {"*"}, <<CRate(2, 2, "other")>>, "DENY", 2)
R_rate_zero == PolicyRule("rate_zero", {"file_read"}, <<CRate(0, 2, "agent_id")>>, "DENY", 5)
R_rate_badmax == PolicyRule("rate_badmax", {"*"}, <<CRateBadMax>>, "DENY", 1)
R_target_rate ==
    PolicyRule("target_rate", {"*"}, <<CTargetList({TargetB}), CRate(2, 2, "target")>>,
               "DENY", 1)
R_or ==
    PolicyRule("deny_or", {"tool_call"},
               <<COr(<< <<CTargetStr(TargetB)>>, <<CPattern(<<"a", "*", "b">>)>> >>)>>,
               "DENY", 4)
R_and ==
    PolicyRule("deny_and", {"*"},
               <<CAnd(<< <<CTargetPattern(<<".", "b">>)>>,
                         <<CParams(<<PCond("url", "eq", TargetB, {})>>)>> >>)>>,
               "DENY", 3)
R_params ==
    PolicyRule("deny_params", {"*"},
               <<CParams(<<PCond("url", "pattern", <<"*">>, {})>>)>>, "DENY", 6)
R_unknown == PolicyRule("deny_agent", {"file_read"}, <<CUnknown("agent_id")>>, "DENY", 7)
R_target_other == PolicyRule("deny_other", {"*"}, <<CTargetOther>>, "DENY", 1)
\* Rules as the learner suggests them (policy_learner.py:314-320 and
\* 349-357), and rules with such conditions among others.
CNamed(k, v) == Item(k, "", v, {}, 0, 0, "", <<>>, <<>>)
R_learned_agent ==
    PolicyRule("learned_agent", {"tool_call"}, <<CNamed("agent_id", <<"a2">>)>>,
               "DENY", 50)
R_learned_time ==
    PolicyRule("learned_time", {"*"}, <<CNamed("time", <<"hour", "9">>)>>,
               "REVIEW", 75)
R_deny_time ==
    PolicyRule("deny_time", {"file_read"},
               <<CNamed("time", <<"hour", "9">>), CNamed("agent_id", <<"a2">>)>>,
               "DENY", 60)
R_deny_b_agent ==
    PolicyRule("deny_b_agent", {"*"},
               <<CTargetStr(TargetB), CNamed("agent_id", <<"a2">>)>>, "DENY", 40)
\* A rule that fails validation: its decision is none of ALLOW, DENY, REVIEW.
R_malformed == PolicyRule("malformed", {"*"}, <<>>, "BLOCK", 1)

RulePool == {R_allow_all, R_deny_ab, R_deny_pat, R_deny_all, R_deny_b}

YamlFile(rules) == [kind |-> "yaml", rules |-> rules]
MissingFile == [kind |-> "missing", rules |-> <<>>]
GarbageFile == [kind |-> "garbage", rules |-> <<>>]

PolicyFiles ==
    {MissingFile, GarbageFile, YamlFile(<<>>)}
    \cup {YamlFile(<<r>>) : r \in RulePool}
    \cup {YamlFile(<<q[1], q[2]>>) : q \in {x \in RulePool \X RulePool : x[1] # x[2]}}
    \cup {YamlFile(<<R_rate_agent>>),
          YamlFile(<<R_rate_agent, R_rate_allow>>),
          YamlFile(<<R_rate_target, R_rate_action>>),
          YamlFile(<<R_rate_zero, R_rate_badmax, R_target_rate>>),
          YamlFile(<<R_or, R_and>>),
          YamlFile(<<R_unknown, R_params, R_target_other>>),
          YamlFile(<<R_deny_all, R_deny_pat, R_deny_ab>>),
          YamlFile(<<R_review_ab, R_deny_ab>>),
          YamlFile(<<R_deny_all, R_review_ab, R_deny_b>>),
          YamlFile(<<R_deny_badre>>),
          YamlFile(<<R_deny_all, R_deny_badre>>),
          YamlFile(<<R_deny_badre, R_allow_all, R_deny_b>>),
          YamlFile(<<R_malformed, R_deny_all>>),
          YamlFile(<<R_deny_ab, R_malformed, R_allow_all>>)}

LearnedFiles ==
    {YamlFile(<<R_learned_agent>>),
     YamlFile(<<R_learned_time, R_learned_agent>>),
     YamlFile(<<R_deny_time, R_allow_all>>),
     YamlFile(<<R_deny_b_agent, R_learned_agent>>),
     YamlFile(<<R_deny_ab, R_deny_time>>)}

\* ------------------------------------------------------------------ loading
Decisions == {"ALLOW", "DENY", "REVIEW"}
PolicyRuleValid(r) == r.decision \in Decisions
\* PolicyConfig(**data) validates every rule and raises when one fails.
PolicyConfigRaises(f) == \E i \in 1..Len(f.rules) : ~PolicyRuleValid(f.rules[i])

\* sorted(..., key=priority) is stable: a rule goes after those of equal key.
InsertBeforeEqual(s, p) ==
    LET k == Cardinality({i \in 1..Len(s) : s[i].priority < p.priority})
    IN SubSeq(s, 1, k) \o <<p>> \o SubSeq(s, k + 1, Len(s))
InsertByPriority(s, p) ==
    LET k == Cardinality({i \in 1..Len(s) : s[i].priority <= p.priority})
    IN SubSeq(s, 1, k) \o <<p>> \o SubSeq(s, k + 1, Len(s))

RECURSIVE SortedFrom(_, _, _)
SortedFrom(rules, i, acc) ==
    IF i > Len(rules) THEN acc
    ELSE SortedFrom(rules, i + 1, InsertByPriority(acc, rules[i]))

SortedByPriority(rules) == SortedFrom(rules, 1, <<>>)

\* _load_policies, given self.policies before the call and the file on disk.
LoadPoliciesUncaught(old, f) ==
    IF f.kind = "missing" THEN [raised |-> FALSE, policies |-> <<>>]
    ELSE IF f.kind = "garbage" \/ PolicyConfigRaises(f)
    THEN [raised |-> TRUE, policies |-> old]
    ELSE [raised |-> FALSE, policies |-> SortedByPriority(f.rules)]
LoadPolicies(old, f) ==
    IF f.kind = "missing" THEN [raised |-> FALSE, policies |-> <<>>]
    ELSE IF f.kind = "garbage" \/ PolicyConfigRaises(f)
    THEN [raised |-> FALSE, policies |-> <<>>]
    ELSE [raised |-> FALSE, policies |-> SortedByPriority(f.rules)]

\* -------------------------------------------------------------- audit log
MaxLog == 3

\* "0" * 64; a digest is modelled by the chain of payloads it commits to, so
\* that two digests are equal only when their inputs are (SHA-256 taken to be
\* free of collisions).
GenesisHash == <<>>

LoggedTargets == {"t1", "t2"}
\* action.parameters holding a list or a tuple: both are written as a JSON
\* array, and a JSON array is read back as a list.
Parameters == {"[1]", "(1)"}
Requests == [target : LoggedTargets, parameters : Parameters]
Verdicts == {"ALLOW", "DENY"}
Ciaa == {"none", "I"}

\* event_data; `extra` holds what a renamed key leaves behind ("" when none).
EventData(req, dec, ciaa, ts) ==
    [action_request |-> req, decision |-> dec, ciaa_evaluation |-> ciaa,
     timestamp |-> ts, extra |-> ""]

\* The JSON text of event_data, named by the object it parses to.
JsonText(data) ==
    [data EXCEPT !.action_request.parameters = IF @ = "(1)" THEN "[1]" ELSE @]

\* _calculate_hash: SHA-256 of json.dumps(data, sort_keys=True) + previous_hash.
CalculateHashOfObject(data, previous_hash) == Append(previous_hash, data)
CalculateHash(data, previous_hash) == Append(previous_hash, JsonText(data))

\* audit_event, as append builds it from event_data and self.last_hash.
AuditEventStalePrev(data, last_hash) ==
    [hash |-> CalculateHash(data, last_hash), previous_hash |-> GenesisHash,
     data |-> data]
AuditEvent(data, last_hash) ==
    [hash |-> CalculateHash(data, last_hash), previous_hash |-> last_hash,
     data |-> data]

\* A line of the file: the text json.dumps writes has form "json". The other
\* forms are texts that differ from it: "respaced" (a separator byte changed:
\* it parses to the same object), "broken" (not JSON), "hashkey" and "prevkey"
\* (the key "hash" or "previous_hash" renamed), "part" (the first bytes of
\* the text, with no newline after them).
JsonDumps(event) ==
    [form |-> "json", hash |-> event.hash, previous_hash |-> event.previous_hash,
     data |-> JsonText(event.data)]

JsonLoads(line) ==
    IF line.form \in {"broken", "part"}
    THEN [error |-> TRUE, hasHash |-> FALSE, hasPrev |-> FALSE, hash |-> <<>>,
          previous_hash |-> <<>>, data |-> line.data]
    ELSE [error |-> FALSE,
          hasHash |-> line.form # "hashkey",
          hasPrev |-> line.form # "prevkey",
          hash |-> line.hash,
          previous_hash |-> line.previous_hash,
          data |-> IF line.form \in {"hashkey", "prevkey"}
                   THEN [line.data EXCEPT !.extra = line.form]
                   ELSE line.data]

\* open(log_file, 'a') and f.write(text + '\n'): the text goes to the end of
\* the file, which is inside the last line when that line has no newline.
WriteLine(lines, text) ==
    IF lines # <<>> /\ lines[Len(lines)].form = "part"
    THEN [lines EXCEPT ![Len(lines)].form = "broken"]
    ELSE Append(lines, text)

\* What is in the file after lines 71-72 raised: nothing of the line, or its
\* first bytes.
FailedWrites == {"nothing", "part"}

WriteFails(lines, text, failure) ==
    IF failure = "nothing" THEN lines
    ELSE WriteLine(lines, [text EXCEPT !.form = "part"])

\* _load_last_hash.
LoadLastHash(exists, lines) ==
    IF ~exists \/ lines = <<>> THEN [raised |-> FALSE, hash |-> GenesisHash]
    ELSE LET e == JsonLoads(lines[Len(lines)])
         IN IF e.error THEN [raised |-> TRUE, hash |-> GenesisHash]
            ELSE [raised |-> FALSE,
                  hash |-> IF e.hasHash THEN e.hash ELSE GenesisHash]

\* verify_chain, line 101: the hash the next line must name.
NextPrevious(event, previous_hash) == event.hash

RECURSIVE VerifyFrom(_, _, _)
VerifyFrom(lines, i, previous_hash) ==
    IF i > Len(lines) THEN "true"
    ELSE LET event == JsonLoads(lines[i])
         IN IF event.error \/ ~event.hasPrev THEN "raise"
            ELSE IF event.previous_hash # previous_hash THEN "false"
            ELSE IF ~event.hasHash THEN "raise"
            ELSE IF event.hash # CalculateHash(event.data, previous_hash) THEN "false"
            ELSE VerifyFrom(lines, i + 1, NextPrevious(event, previous_hash))

\* A variant of VerifyChain that returns false on a file without lines.
VerifyChainNonEmpty(exists, lines) ==
    IF ~exists THEN "true"
    ELSE IF lines = <<>> THEN "false"
    ELSE VerifyFrom(lines, 1, GenesisHash)

VerifyChain(exists, lines) ==
    IF ~exists THEN "true" ELSE VerifyFrom(lines, 1, GenesisHash)

\* get_recent_events, line 113: readlines()[-limit:] for a limit >= 0.
LastLines(lines, limit) ==
    IF limit = 0 THEN lines
    ELSE SubSeq(lines, IF Len(lines) > limit THEN Len(lines) - limit + 1 ELSE 1,
                Len(lines))

Reversed(s) == [i \in 1..Len(s) |-> s[Len(s) + 1 - i]]

\* get_recent_events(limit).
GetRecentEvents(exists, lines, limit) ==
    IF ~exists THEN [raised |-> FALSE, events |-> <<>>]
    ELSE LET sel == LastLines(lines, limit)
         IN IF \E i \in 1..Len(sel) : JsonLoads(sel[i]).error
            THEN [raised |-> TRUE, events |-> <<>>]
            ELSE [raised |-> FALSE,
                  events |-> Reversed([i \in 1..Len(sel) |-> JsonLoads(sel[i])])]

\* The threads that call append on one logger.
Threads == {"w1", "w2"}
Idle == [pc |-> "idle"]
NoRecent == [called |-> FALSE]

\* ---------------------------------------------------------- rate limiters
\* time.time() is counted in thousandths of a second and a bucket's tokens in
\* thousandths of a token, so that tokens + time_passed * rate is exact for
\* the whole rates used here.
Milli == 1000

Min(a, b) == IF a < b THEN a ELSE b
Max(a, b) == IF a > b THEN a ELSE b

\* A wait time in thousandths of a second, as a fraction.
Wait(num, den) == [num |-> num, den |-> den]
NoWait == Wait(0, 1)
WaitLess(a, b) == a.num * b.den < b.num * a.den
WaitEq(a, b) == a.num * b.den = b.num * a.den

\* TokenBucket.__init__(rate, capacity) at time now.
TokenBucket(rate, capacity, now) ==
    [kind |-> "TokenBucket", rate |-> rate, capacity |-> capacity,
     tokens |-> capacity * Milli, last_update |-> now]

\* line 49: self.tokens = min(self.capacity, self.tokens + time_passed * rate)
RefillUncapped(b, now) == b.tokens + (now - b.last_update) * b.rate
Refill(b, now) ==
    Min(b.capacity * Milli, b.tokens + (now - b.last_update) * b.rate)

\* line 52: if self.tokens >= tokens
EnoughStrict(have, tokens) == have > tokens * Milli
Enough(have, tokens) == have >= tokens * Milli

\* TokenBucket.consume(tokens) at time now.
Consume(b, tokens, now) ==
    LET have == Refill(b, now)
    IN IF Enough(have, tokens)
       THEN [limiter |-> [b EXCEPT !.tokens = have - tokens * Milli,
                                   !.last_update = now],
             success |-> TRUE, wait_time |-> NoWait, raised |-> FALSE]
       ELSE [limiter |-> [b EXCEPT !.tokens = have, !.last_update = now],
             success |-> FALSE,
             wait_time |-> Wait(tokens * Milli - have, b.rate),
             raised |-> FALSE]

\* SlidingWindow.__init__(max_requests, window_seconds).
SlidingWindow(max_requests, window_seconds) ==
    [kind |-> "SlidingWindow", max_requests |-> max_requests,
     window_seconds |-> window_seconds, requests |-> <<>>]

\* lines 97-98: while self.requests and self.requests[0] < cutoff: popleft()
RECURSIVE PopOldOrAt(_, _)
PopOldOrAt(requests, cutoff) ==
    IF requests # <<>> /\ requests[1] <= cutoff
    THEN PopOldOrAt(Tail(requests), cutoff)
    ELSE requests

RECURSIVE PopOld(_, _)
PopOld(requests, cutoff) ==
    IF requests # <<>> /\ requests[1] < cutoff
    THEN PopOld(Tail(requests), cutoff)
    ELSE requests

\* add_request(timestamp=None): the argument left out.
NoStamp == -1

\* SlidingWindow.add_request(timestamp) when time.time() reads clock; line 93,
\* `timestamp or time.time()`, takes the clock for a timestamp of None or 0.
AddRequest(w, timestamp, clock) ==
    LET now == IF timestamp = NoStamp \/ timestamp = 0 THEN clock ELSE timestamp
        cutoff == now - w.window_seconds * Milli
        requests == PopOld(w.requests, cutoff)
    IN IF Len(requests) < w.max_requests
       THEN [limiter |-> [w EXCEPT !.requests = Append(requests, now)],
             success |-> TRUE, wait_time |-> NoWait, raised |-> FALSE]
       ELSE IF requests = <<>>
       THEN [limiter |-> [w EXCEPT !.requests = requests],
             success |-> FALSE, wait_time |-> NoWait, raised |-> TRUE]
       ELSE [limiter |-> [w EXCEPT !.requests = requests],
             success |-> FALSE,
             wait_time |->
                 Wait(Max(0, requests[1] + w.window_seconds * Milli - now), 1),
             raised |-> FALSE]

\* ------------------------------------------------- AdvancedRateLimiter
\* str.lower(), on the letters A to Z.
UpperCase ==
    <<"A", "B", "C", "D", "E", "F", "G", "H", "I", "J", "K", "L", "M",
      "N", "O", "P", "Q", "R", "S", "T", "U", "V", "W", "X", "Y", "Z">>
LowerCase ==
    <<"a", "b", "c", "d", "e", "f", "g", "h", "i", "j", "k", "l", "m",
      "n", "o", "p", "q", "r", "s", "t", "u", "v", "w", "x", "y", "z">>
LowerChar(c) ==
    IF \E i \in 1..Len(UpperCase) : UpperCase[i] = c
    THEN LowerCase[CHOOSE i \in 1..Len(UpperCase) : UpperCase[i] = c]
    ELSE c
Lower(str) == [i \in 1..Len(str) |-> LowerChar(str[i])]

\* pattern in text
Contains(pattern, text) ==
    \E i \in 0..(Len(text) - Len(pattern)) :
        SubSeq(text, i + 1, i + Len(pattern)) = pattern

\* _is_sensitive: sensitive_patterns, in the source's order.
SensitivePatterns ==
    <<<<"p", "a", "s", "s", "w", "o", "r", "d">>,
     <<"s", "e", "c", "r", "e", "t">>,
     <<"t", "o", "k", "e", "n">>,
     <<"k", "e", "y">>,
     <<"d", "e", "l", "e", "t", "e">>,
     <<"d", "r", "o", "p">>,
     <<"t", "r", "u", "n", "c", "a", "t", "e">>,
     <<"f", "o", "r", "m", "a", "t">>,
     <<"e", "x", "e", "c", "u", "t", "e">>,
     <<"s", "u", "d", "o">>,
     <<"a", "d", "m", "i", "n">>>>

IsSensitive(target) ==
    LET target_lower == Lower(target)
    IN \E i \in 1..Len(SensitivePatterns) :
          Contains(SensitivePatterns[i], target_lower)

RateLimitConfig(requests_per_second, burst_size, window_seconds, algorithm) ==
    [requests_per_second |-> requests_per_second, burst_size |-> burst_size,
     window_seconds |-> window_seconds, algorithm |-> algorithm]

\* self.default_configs
DefaultConfigs ==
    [global |-> RateLimitConfig(100, 200, 60, "token_bucket"),
     per_agent |-> RateLimitConfig(20, 50, 60, "token_bucket"),
     per_action |-> RateLimitConfig(5, 10, 60, "token_bucket"),
     sensitive_actions |-> RateLimitConfig(1, 3, 60, "token_bucket")]

\* line 180: self.default_configs.get(dimension, self.default_configs["global"])
DefaultConfigFor(dimension) ==
    IF dimension \in DOMAIN DefaultConfigs THEN DefaultConfigs[dimension]
    ELSE DefaultConfigs["global"]

\* An identifier is the string in a one-element tuple, or the target itself
\* (a sequence of characters) in the sensitive dimension.
Ident(str) == <<str>>
Key(dimension, identifier) == <<dimension, identifier>>

\* setup_limiter, lines 146-151: the limiter object a config asks for.
NewLimiter(config, now) ==
    IF config.algorithm = "token_bucket"
    THEN TokenBucket(config.requests_per_second, config.burst_size, now)
    ELSE IF config.algorithm = "sliding_window"
    THEN SlidingWindow(config.burst_size, config.window_seconds)
    ELSE [kind |-> "ValueError"]

\* lines 185-188: consume() on a TokenBucket, add_request() on a SlidingWindow.
UseLimiter(limiter, now) ==
    IF limiter.kind = "TokenBucket" THEN Consume(limiter, 1, now)
    ELSE AddRequest(limiter, NoStamp, now)

\* line 163: dimensions_to_check; an identifier of None is `present` FALSE.
DimensionsToCheck(agent_id, action_type, target) ==
    <<[dimension |-> "global", present |-> TRUE, identifier |-> Ident("all")],
      [dimension |-> "per_agent", present |-> TRUE,
       identifier |-> Ident(agent_id)],
      [dimension |-> "per_action", present |-> TRUE,
       identifier |-> Ident(action_type)],
      [dimension |-> "sensitive", present |-> IsSensitive(target),
       identifier |-> target]>>

Dimensions == {"global", "per_agent", "per_action", "sensitive"}
NoResult == [checked |-> FALSE]
NoResults == [d \in Dimensions |-> NoResult]

\* line 203: max(wait_times) if wait_times else 0.0
FirstWait(wait_times) == IF wait_times = <<>> THEN NoWait ELSE wait_times[1]
MaxWait(wait_times) ==
    IF wait_times = <<>> THEN NoWait
    ELSE wait_times[CHOOSE i \in 1..Len(wait_times) :
                       \A j \in 1..Len(wait_times) :
                          ~WaitLess(wait_times[i], wait_times[j])]

\* The callers and targets of check_rate_limit.
LimiterAgents == {"a1", "a2", "a3", "a4"}
LimiterActionTypes == {"tool_call", "file_read", "api_call", "network_request"}
TargetApiKey == <<"A", "p", "i", "K", "e", "y">>
TargetLogs == <<"l", "o", "g", "s">>
LimiterTargets == {TargetApiKey, TargetLogs}

LimiterKeys ==
    {Key("global", Ident("all"))}
    \cup {Key("per_agent", Ident(a)) : a \in LimiterAgents}
    \cup {Key("per_action", Ident(ty)) : ty \in LimiterActionTypes}
    \cup {Key("sensitive", tg) : tg \in LimiterTargets}

\* self.limiters and self.configs, with the limiter objects kept apart in
\* `heap` (limiters[key] is the place of the key's object in it, 0 when the
\* key is absent). A heap entry also keeps, as history, the key the object
\* was made for and how many requests it has admitted.
EmptyStore ==
    [heap |-> <<>>, limiters |-> [k \in LimiterKeys |-> 0],
     configs |-> [k \in LimiterKeys |-> None]]

\* setup_limiter(dimension, identifier, config) at time now.
SetupLimiter(store, key, config, now) ==
    LET limiter == NewLimiter(config, now)
    IN IF limiter.kind = "ValueError" THEN store
       ELSE [heap |-> Append(store.heap,
                             [key |-> key, admitted |-> 0, obj |-> limiter]),
             limiters |-> [store.limiters EXCEPT ![key] = Len(store.heap) + 1],
             configs |-> [store.configs EXCEPT ![key] = config]]

\* lines 185-198 on the object at place ref of the heap.
UseAt(heap, ref, now) ==
    LET r == UseLimiter(heap[ref].obj, now)
    IN [heap |-> [heap EXCEPT ![ref] =
                     [key |-> heap[ref].key,
                      admitted |-> heap[ref].admitted
                                     + (IF r.success THEN 1 ELSE 0),
                      obj |-> r.limiter]],
        success |-> r.success, wait_time |-> r.wait_time,
        limiter |-> heap[ref].obj.kind]

Result(r) ==
    [checked |-> TRUE, allowed |-> r.success, wait_time |-> r.wait_time,
     limiter |-> r.limiter]

\* A variant of CheckFrom that leaves the loop at the first dimension that
\* denies.
RECURSIVE CheckFromUntilDenied(_, _, _, _)
CheckFromUntilDenied(dims, i, acc, now) ==
    IF i > Len(dims) \/ ~acc.allowed THEN acc
    ELSE IF ~dims[i].present THEN CheckFromUntilDenied(dims, i + 1, acc, now)
    ELSE LET key == Key(dims[i].dimension, dims[i].identifier)
             store == IF acc.store.limiters[key] = 0
                      THEN SetupLimiter(acc.store, key,
                                        DefaultConfigFor(dims[i].dimension), now)
                      ELSE acc.store
             r == UseAt(store.heap, store.limiters[key], now)
         IN CheckFromUntilDenied(dims, i + 1,
                [store |-> [store EXCEPT !.heap = r.heap],
                 results |-> [acc.results EXCEPT
                                 ![dims[i].dimension] = Result(r)],
                 allowed |-> acc.allowed /\ r.success,
                 wait_times |-> IF r.success THEN acc.wait_times
                                ELSE Append(acc.wait_times, r.wait_time)],
                now)

\* lines 170-198: the loop over dimensions_to_check, from entry i on.
RECURSIVE CheckFrom(_, _, _, _)
CheckFrom(dims, i, acc, now) ==
    IF i > Len(dims) THEN acc
    ELSE IF ~dims[i].present THEN CheckFrom(dims, i + 1, acc, now)
    ELSE LET key == Key(dims[i].dimension, dims[i].identifier)
             store == IF acc.store.limiters[key] = 0
                      THEN SetupLimiter(acc.store, key,
                                        DefaultConfigFor(dims[i].dimension), now)
                      ELSE acc.store
             r == UseAt(store.heap, store.limiters[key], now)
         IN CheckFrom(dims, i + 1,
                [store |-> [store EXCEPT !.heap = r.heap],
                 results |-> [acc.results EXCEPT
                                 ![dims[i].dimension] = Result(r)],
                 allowed |-> acc.allowed /\ r.success,
                 wait_times |-> IF r.success THEN acc.wait_times
                                ELSE Append(acc.wait_times, r.wait_time)],
                now)

\* lines 200-207: details.
Details(acc, agent_id, action_type, target) ==
    [called |-> TRUE, allowed |-> acc.allowed, results |-> acc.results,
     max_wait_time |-> MaxWait(acc.wait_times), agent_id |-> agent_id,
     action_type |-> action_type, target |-> target]

\* lines 219-220: at most the last 1000 entries of an agent's history stay.
HistoryCap == 1000
Recorded(length) == Min(length + 1, HistoryCap)

\* lines 210-216: the entry of a call; its timestamp is the number of the
\* call (utcnow() read at a later call is later).
HistoryEntry(timestamp, action_type, target, acc) ==
    [timestamp |-> timestamp, action_type |-> action_type, target |-> target,
     allowed |-> acc.allowed, details |-> acc.results]

\* A variant of TrimHistory that keeps the oldest entries.
TrimNewest(list) ==
    IF Len(list) > HistoryCap THEN SubSeq(list, 1, HistoryCap) ELSE list

\* lines 219-220: self.history[agent_id][-1000:] when it is longer than 1000.
TrimHistory(list) ==
    IF Len(list) > HistoryCap
    THEN SubSeq(list, Len(list) - HistoryCap + 1, Len(list))
    ELSE list

\* lines 210-220.
RecordHistory(list, entry) == TrimHistory(Append(list, entry))

\* ---------------------------------------------------------- CIAAEvaluator
\* self.rate_windows["minute"], in thousandths of a second.
Minute == 60 * Milli

\* An action as the availability check reads it; agent_id and target are
\* sequences of pieces of text, ":" being a piece of its own.
CiaaAction(agent_id, action_type, target) ==
    [agent_id |-> agent_id, action_type |-> action_type, target |-> target]

\* line 102: f"{action.agent_id}:{action.action_type.value}:{action.target}"
CiaaKey(action) ==
    action.agent_id \o <<":", action.action_type, ":">> \o action.target

\* _get_rate_limit
GetRateLimit(action) ==
    CASE action.action_type = "database_query" -> 50
      [] action.action_type = "memory_read" -> 100
      [] action.action_type = "api_call" -> 30
      [] action.action_type = "network_request" -> 10
      [] OTHER -> 100

CiaaActions ==
    {CiaaAction(<<"a1">>, "api_call", <<"host", ":", "network_request", ":", "x">>),
     CiaaAction(<<"a1", ":", "api_call", ":", "host">>, "network_request", <<"x">>)}
CiaaKeys == {CiaaKey(a) : a \in CiaaActions}

NoViolation == [reason |-> "None", calls |-> 0]

\* _violates_availability(action) when datetime.utcnow() reads now.
ViolatesAvailability(counts, action, now) ==
    LET key == CiaaKey(action)
        kept == SelectSeq(counts[key], LAMBDA ts : now - ts < Minute)
    IN IF Len(kept) >= GetRateLimit(action)
       THEN [violation |-> [reason |-> "Rate limit exceeded", calls |-> Len(kept)],
             counts |-> [counts EXCEPT ![key] = kept],
             recorded |-> FALSE]
       ELSE [violation |-> NoViolation,
             counts |-> [counts EXCEPT ![key] = Append(kept, now)],
             recorded |-> TRUE]

\* The files whose rules all carry a rate_limit condition.
RateFiles ==
    {YamlFile(<<R_rate_agent>>),
     YamlFile(<<R_rate_agent, R_rate_allow>>),
     YamlFile(<<R_rate_target, R_rate_action>>)}

\* --------------------------------------------------------------- LRUCache
\* An Optional[float]: <<>> is None, <<x>> is the number x.
Nothing == <<>>
Some(x) == <<x>>

\* CacheEntry(key, value, created_at, expires_at), hits = 0.
CacheEntry(key, value, created_at, expires_at) ==
    [key |-> key, value |-> value, created_at |-> created_at,
     expires_at |-> expires_at, hits |-> 0]

\* CacheEntry.is_expired() when time.time() reads now.
IsExpired(entry, now) ==
    IF entry.expires_at = Nothing THEN FALSE ELSE now > entry.expires_at[1]

\* LRUCache(maxsize, ttl).
LRUCache(maxsize, ttl) ==
    [maxsize |-> maxsize, ttl |-> ttl, cache |-> <<>>, order |-> <<>>,
     hits |-> 0, misses |-> 0]

\* del d[key]
Del(d, key) == [k \in DOMAIN d \ {key} |-> d[k]]
\* d[key] = entry
Put(d, key, entry) == [k \in DOMAIN d \cup {key} |-> IF k = key THEN entry ELSE d[k]]

\* list.remove(key): the list without the first item equal to key.
RECURSIVE ListRemove(_, _)
ListRemove(list, key) ==
    IF list = <<>> THEN <<>>
    ELSE IF Head(list) = key THEN Tail(list)
    ELSE <<Head(list)>> \o ListRemove(Tail(list), key)

\* A variant of MoveToEnd that leaves the order as it is.
LeaveInPlace(order, key) == order

\* self.order.remove(key); self.order.append(key)
MoveToEnd(order, key) == Append(ListRemove(order, key), key)

\* A variant of Oldest that names the most recently used key.
Newest(order) == order[Len(order)]

\* The key self.order.pop(0) returns.
Oldest(order) == Head(order)

Miss == [none |-> TRUE]
Hit(value) == [none |-> FALSE, value |-> value]

\* LRUCache.get(key) when time.time() reads now: the cache after the call and
\* what the call returns.
LruGet(c, key, now) ==
    IF key \in DOMAIN c.cache
    THEN IF IsExpired(c.cache[key], now)
         THEN [lru |-> [c EXCEPT !.cache = Del(@, key),
                                 !.order = ListRemove(@, key),
                                 !.misses = @ + 1],
               returns |-> Miss]
         ELSE [lru |-> [c EXCEPT !.order = MoveToEnd(@, key),
                                 !.cache[key].hits = @ + 1,
                                 !.hits = @ + 1],
               returns |-> Hit(c.cache[key].value)]
    ELSE [lru |-> [c EXCEPT !.misses = @ + 1], returns |-> Miss]

\* LRUCache.set(key, value, ttl) when time.time() reads now; raised is the
\* IndexError of pop(0) on an empty list.
LruSet(c, key, value, ttl, now) ==
    LET expires_at == IF ttl # Nothing THEN Some(now + ttl[1])
                      ELSE IF c.ttl # Nothing THEN Some(now + c.ttl[1])
                      ELSE Nothing
        entry == CacheEntry(key, value, now, expires_at)
    IN IF key \in DOMAIN c.cache
       THEN [lru |-> [c EXCEPT !.cache = Put(@, key, entry),
                               !.order = MoveToEnd(@, key)],
             raised |-> FALSE]
       ELSE IF Cardinality(DOMAIN c.cache) >= c.maxsize
            THEN IF c.order = <<>>
                 THEN [lru |-> c, raised |-> TRUE]
                 ELSE [lru |-> [c EXCEPT
                                  !.cache = Put(Del(@, Oldest(c.order)), key, entry),
                                  !.order = Append(ListRemove(@, Oldest(c.order)), key)],
                       raised |-> FALSE]
            ELSE [lru |-> [c EXCEPT !.cache = Put(@, key, entry),
                                    !.order = Append(@, key)],
                  raised |-> FALSE]

\* The statements a call runs inside `with self.lock`, one after another;
\* the conditions of the call (key in self.cache, entry.is_expired(),
\* len(self.cache) >= self.maxsize) are read when it enters.
Stmt(do, key, entry) == [do |-> do, key |-> key, entry |-> entry]
NoEntry == <<>>

GetStatements(c, key, now) ==
    IF key \in DOMAIN c.cache
    THEN IF IsExpired(c.cache[key], now)
         THEN <<Stmt("del", key, NoEntry), Stmt("remove", key, NoEntry),
                Stmt("miss", key, NoEntry)>>
         ELSE <<Stmt("remove", key, NoEntry), Stmt("append", key, NoEntry),
                Stmt("hit", key, NoEntry)>>
    ELSE <<Stmt("miss", key, NoEntry)>>

SetStatements(c, key, value, ttl, now) ==
    LET expires_at == IF ttl # Nothing THEN Some(now + ttl[1])
                      ELSE IF c.ttl # Nothing THEN Some(now + c.ttl[1])
                      ELSE Nothing
        entry == CacheEntry(key, value, now, expires_at)
    IN IF key \in DOMAIN c.cache
       THEN <<Stmt("put", key, entry), Stmt("remove", key, NoEntry),
              Stmt("append", key, NoEntry)>>
       ELSE IF Cardinality(DOMAIN c.cache) >= c.maxsize
       THEN <<Stmt("pop", key, NoEntry), Stmt("del_oldest", key, NoEntry),
              Stmt("put", key, entry), Stmt("append", key, NoEntry)>>
       ELSE <<Stmt("put", key, entry), Stmt("append", key, NoEntry)>>

DeleteStatements(c, key) ==
    IF key \in DOMAIN c.cache
    THEN <<Stmt("del", key, NoEntry), Stmt("remove", key, NoEntry)>>
    ELSE <<>>

ClearStatements ==
    <<Stmt("clear_cache", "", NoEntry), Stmt("clear_order", "", NoEntry),
      Stmt("reset", "", NoEntry)>>

Member(list, x) == \E i \in 1..Len(list) : list[i] = x

\* One statement on the cache; oldest_key is the local of set. raised is the
\* KeyError of del, the ValueError of remove or the IndexError of pop(0).
RunStatement(c, st, oldest_key) ==
    CASE st.do = "del" ->
            IF st.key \in DOMAIN c.cache
            THEN [lru |-> [c EXCEPT !.cache = Del(@, st.key)], raised |-> FALSE,
                  oldest_key |-> oldest_key]
            ELSE [lru |-> c, raised |-> TRUE, oldest_key |-> oldest_key]
      [] st.do = "del_oldest" ->
            IF oldest_key \in DOMAIN c.cache
            THEN [lru |-> [c EXCEPT !.cache = Del(@, oldest_key)],
                  raised |-> FALSE, oldest_key |-> oldest_key]
            ELSE [lru |-> c, raised |-> TRUE, oldest_key |-> oldest_key]
      [] st.do = "remove" ->
            IF Member(c.order, st.key)
            THEN [lru |-> [c EXCEPT !.order = ListRemove(@, st.key)],
                  raised |-> FALSE, oldest_key |-> oldest_key]
            ELSE [lru |-> c, raised |-> TRUE, oldest_key |-> oldest_key]
      [] st.do = "pop" ->
            IF c.order # <<>>
            THEN [lru |-> [c EXCEPT !.order = Tail(@)], raised |-> FALSE,
                  oldest_key |-> Oldest(c.order)]
            ELSE [lru |-> c, raised |-> TRUE, oldest_key |-> oldest_key]
      [] st.do = "append" ->
            [lru |-> [c EXCEPT !.order = Append(@, st.key)], raised |-> FALSE,
             oldest_key |-> oldest_key]
      [] st.do = "put" ->
            [lru |-> [c EXCEPT !.cache = Put(@, st.key, st.entry)],
             raised |-> FALSE, oldest_key |-> oldest_key]
      [] st.do = "clear_cache" ->
            [lru |-> [c EXCEPT !.cache = <<>>], raised |-> FALSE,
             oldest_key |-> oldest_key]
      [] st.do = "clear_order" ->
            [lru |-> [c EXCEPT !.order = <<>>], raised |-> FALSE,
             oldest_key |-> oldest_key]
      [] st.do = "reset" ->
            [lru |-> [c EXCEPT !.hits = 0, !.misses = 0], raised |-> FALSE,
             oldest_key |-> oldest_key]
      [] st.do = "miss" ->
            [lru |-> [c EXCEPT !.misses = @ + 1], raised |-> FALSE,
             oldest_key |-> oldest_key]
      [] OTHER ->
            [lru |-> IF st.key \in DOMAIN c.cache
                     THEN [c EXCEPT !.cache[st.key].hits = @ + 1, !.hits = @ + 1]
                     ELSE [c EXCEPT !.hits = @ + 1],
             raised |-> FALSE, oldest_key |-> oldest_key]

\* A variant of LockAvailable: `with self.lock` lets every thread in.
LockIgnored(holder, t) == TRUE

\* threading.RLock: a thread enters when no other thread holds the lock.
LockAvailable(holder, t) == holder \in {"free", t}

\* LRUCache.delete(key)
LruDelete(c, key) ==
    IF key \in DOMAIN c.cache
    THEN [c EXCEPT !.cache = Del(@, key), !.order = ListRemove(@, key)]
    ELSE c

\* LRUCache.clear()
LruClear(c) == [c EXCEPT !.cache = <<>>, !.order = <<>>, !.hits = 0, !.misses = 0]

\* ------------------------------------------------------------ PolicyCache
\* PolicyCache.__init__: the sizes, and the lifetimes in thousandths of a
\* second.
ActionCacheMaxsize == 10000
ActionCacheTtl == 300 * Milli
PolicyCacheMaxsize == 1000
PolicyCacheTtl == 600 * Milli
RateLimitCacheMaxsize == 5000
RateLimitCacheTtl == 60 * Milli

PolicyCache ==
    [action_cache |-> LRUCache(ActionCacheMaxsize, Some(ActionCacheTtl)),
     policy_cache |-> LRUCache(PolicyCacheMaxsize, Some(PolicyCacheTtl)),
     rate_limit_cache |-> LRUCache(RateLimitCacheMaxsize, Some(RateLimitCacheTtl))]

\* The four arguments that identify a decision; each is a text, given as its
\* pieces with ":" a piece of its own.
Fingerprint(action_hash, agent_id, action_type, target) ==
    [action_hash |-> action_hash, agent_id |-> agent_id,
     action_type |-> action_type, target |-> target]

\* f"decision:{agent_id}:{action_type}:{target}:{action_hash}"
DecisionKey(fp) ==
    <<"decision", ":">> \o fp.agent_id \o <<":">> \o fp.action_type \o <<":">>
        \o fp.target \o <<":">> \o fp.action_hash

\* f"policy:{policy_id}:{action_hash}"
PolicyKey(policy_id, action_hash) ==
    <<"policy", ":">> \o policy_id \o <<":">> \o action_hash

\* line 286: f":{agent_id}:" in key
AgentInKey(agent_id, key) == Contains(<<":">> \o agent_id \o <<":">>, key)

\* get_action_decision(action_hash, agent_id, action_type, target)
GetActionDecision(pc, fp, now) ==
    LET r == LruGet(pc.action_cache, DecisionKey(fp), now)
    IN [pcache |-> [pc EXCEPT !.action_cache = r.lru], returns |-> r.returns]

\* set_action_decision(action_hash, agent_id, action_type, target, decision,
\* reason); raised as in LRUCache.set.
SetActionDecision(pc, fp, decision, reason, now) ==
    LET r == LruSet(pc.action_cache, DecisionKey(fp), <<decision, reason>>,
                    Some(ActionCacheTtl), now)
    IN [pcache |-> [pc EXCEPT !.action_cache = r.lru], raised |-> r.raised]

\* get_policy_result(policy_id, action_hash)
GetPolicyResult(pc, policy_id, action_hash, now) ==
    LET r == LruGet(pc.policy_cache, PolicyKey(policy_id, action_hash), now)
    IN [pcache |-> [pc EXCEPT !.policy_cache = r.lru], returns |-> r.returns]

\* set_policy_result(policy_id, action_hash, result)
SetPolicyResult(pc, policy_id, action_hash, result, now) ==
    LET r == LruSet(pc.policy_cache, PolicyKey(policy_id, action_hash), result,
                    Some(PolicyCacheTtl), now)
    IN [pcache |-> [pc EXCEPT !.policy_cache = r.lru], raised |-> r.raised]

\* get_rate_limit(key)
GetRateLimitCached(pc, key, now) ==
    LET r == LruGet(pc.rate_limit_cache, key, now)
    IN [pcache |-> [pc EXCEPT !.rate_limit_cache = r.lru], returns |-> r.returns]

\* set_rate_limit(key, allowed, wait_time)
SetRateLimitCached(pc, key, allowed, wait_time, now) ==
    LET r == LruSet(pc.rate_limit_cache, key, <<allowed, wait_time>>,
                    Some(RateLimitCacheTtl), now)
    IN [pcache |-> [pc EXCEPT !.rate_limit_cache = r.lru], raised |-> r.raised]

\* invalidate_agent(agent_id): every key of the action cache that line 286
\* selects is deleted.
InvalidateAgent(pc, agent_id) ==
    LET keys_to_delete == {k \in DOMAIN pc.action_cache.cache : AgentInKey(agent_id, k)}
    IN [pc EXCEPT !.action_cache.cache = [k \in DOMAIN @ \ keys_to_delete |-> @[k]],
                  !.action_cache.order = SelectSeq(@, LAMBDA k : k \notin keys_to_delete)]

\* ---------------------------------------------------------- PolicyLearner
\* A float that is a quotient of two whole numbers.
Ratio(num, den) == [num |-> num, den |-> den]
RatioLeq(a, b) == a.num * b.den <= b.num * a.den

\* The fields of an ActionRequest that the learner reads. The actions fed
\* here carry an empty parameters dict.
BlockedAction(action_id, agent_id, action_type, target, hour) ==
    [action_id |-> action_id, agent_id |-> agent_id, action_type |-> action_type,
     target |-> target, hour |-> hour]

\* The fields of a Decision that the learner reads; policy_id "" stands for
\* a policy_id that is None or empty, ciaa_violations is the set of its keys.
BlockedDecision(policy_id, ciaa_violations) ==
    [policy_id |-> policy_id, ciaa_violations |-> ciaa_violations]

\* ",".join(sorted(decision.ciaa_violations.keys()))
RECURSIVE JoinWith(_, _)
JoinWith(parts, sep) ==
    IF parts = <<>> THEN <<>>
    ELSE IF Len(parts) = 1 THEN <<parts[1]>>
    ELSE <<parts[1], sep>> \o JoinWith(Tail(parts), sep)
SortedAxes(violations) == SelectSeq(<<"A", "C", "I">>, LAMBDA x : x \in violations)

\* _get_cluster_key: the parts joined with ":".
GetClusterKey(action, decision) ==
    JoinWith(<<action.action_type, action.target>>
               \o (IF decision.policy_id # "" THEN <<decision.policy_id>> ELSE <<>>)
               \o (IF decision.ciaa_violations # {}
                   THEN JoinWith(SortedAxes(decision.ciaa_violations), ",")
                   ELSE <<>>),
             ":")

ClusterCap == 50

\* list[-n:] for a list longer than n.
LastOf(list, n) == SubSeq(list, Len(list) - n + 1, Len(list))

\* The place of the cluster of a key in action_clusters, 0 when it has none.
ClusterIndex(clusters, key) ==
    IF \E i \in 1..Len(clusters) : clusters[i].key = key
    THEN CHOOSE i \in 1..Len(clusters) : clusters[i].key = key
    ELSE 0

\* _cluster_action when datetime.utcnow() reads now; action_clusters is kept
\* as the list of its (key, members) items in insertion order.
ClusterAction(clusters, action, decision, now) ==
    LET key == GetClusterKey(action, decision)
        member == [action |-> action, decision |-> decision, timestamp |-> now]
        i == ClusterIndex(clusters, key)
        members == IF i = 0 THEN <<member>> ELSE Append(clusters[i].members, member)
        trimmed == IF Len(members) > ClusterCap THEN LastOf(members, ClusterCap)
                   ELSE members
    IN IF i = 0 THEN Append(clusters, [key |-> key, members |-> trimmed])
       ELSE [clusters EXCEPT ![i].members = trimmed]

\* PolicyLearner(learning_window)
PolicyLearner(learning_window) ==
    [learning_window |-> learning_window, blocked_actions |-> <<>>,
     learned_patterns |-> <<>>, action_clusters |-> <<>>]

\* The action types that have an entry in feature_extractors.
ExtractorTypes ==
    {"tool_call", "api_call", "network_request", "database_query", "file_write"}

\* _extract_tool_features for an action with empty parameters.
ExtractToolFeatures(action) ==
    [tool_name |-> action.target, param_count |-> 0, param_keys |-> <<>>,
     has_external |-> FALSE, has_sensitive |-> FALSE]

\* A variant of HasPattern that finds no pattern_id stored.
NoPattern(patterns, id) == FALSE

\* pattern_id in learned_patterns
HasPattern(patterns, id) == \E i \in 1..Len(patterns) : patterns[i].id = id

\* self.learned_patterns[pattern_id] = suggestion: learned_patterns is kept
\* as the list of its values in insertion order; a key that is stored keeps
\* its place and gets the new value.
StorePattern(patterns, suggestion) ==
    IF \E i \in 1..Len(patterns) : patterns[i].id = suggestion.id
    THEN [i \in 1..Len(patterns) |->
             IF patterns[i].id = suggestion.id THEN suggestion ELSE patterns[i]]
    ELSE Append(patterns, suggestion)

\* The example_actions of a suggestion: the first three of the actions.
ExampleActions(actions) ==
    [i \in 1..Min(3, Len(actions)) |->
        [agent_id |-> actions[i].action.agent_id, target |-> actions[i].action.target]]

\* _create_suggested_policy for the features of a tool call; hashes gives
\* the value of hash(...) % 1000 for the text of the features.
CreateSuggestedPolicy(action, decision, features, blocked, hashes) ==
    [id |-> <<"learned", action.action_type, hashes.features[features]>>,
     applies_to |-> <<action.action_type>>,
     condition |-> [target |-> features.tool_name],
     decision |-> "DENY",
     learned_from |-> Len(SelectSeq(blocked,
                          LAMBDA a : a.action.action_type = action.action_type)),
     priority |-> 50]

\* line 264: len(actions) / 10.0
ClusterConfidence(size) == Ratio(size, 10)

\* _analyze_cluster(cluster_key, actions) for the types fed here: a tool
\* call, or a type without extractor.
AnalyzeCluster(l, cluster, hashes) ==
    LET actions == cluster.members
        action_samples == IF Len(actions) > 5 THEN LastOf(actions, 5) ELSE actions
        decision == actions[1].decision
        first_action == action_samples[1].action
        pattern_id == <<"pattern", hashes.cluster[cluster.key]>>
    IN IF first_action.action_type \notin ExtractorTypes THEN l
       ELSE IF HasPattern(l.learned_patterns, pattern_id) THEN l
       ELSE [l EXCEPT !.learned_patterns = StorePattern(@,
               [id |-> pattern_id,
                source |-> "cluster",
                pattern |-> ExtractToolFeatures(first_action),
                confidence |-> ClusterConfidence(Len(actions)),
                example_actions |-> ExampleActions(action_samples),
                blocked_count |-> Len(actions),
                suggested_policy |->
                    CreateSuggestedPolicy(first_action, decision,
                                          ExtractToolFeatures(first_action),
                                          l.blocked_actions, hashes)])]

\* lines 226-228: the clusters of three or more, in dict order.
RECURSIVE AnalyzeClusters(_, _, _)
AnalyzeClusters(l, i, hashes) ==
    IF i > Len(l.action_clusters) THEN l
    ELSE AnalyzeClusters(IF Len(l.action_clusters[i].members) >= 3
                         THEN AnalyzeCluster(l, l.action_clusters[i], hashes)
                         ELSE l,
                         i + 1, hashes)

\* The distinct values of f over a list, in order of first appearance.
RECURSIVE Distinct(_, _)
Distinct(list, seen) ==
    IF list = <<>> THEN <<>>
    ELSE IF Head(list) \in seen THEN Distinct(Tail(list), seen)
    ELSE <<Head(list)>> \o Distinct(Tail(list), seen \cup {Head(list)})

Count(list, x) == Len(SelectSeq(list, LAMBDA y : y = x))

\* Counter(list).most_common(1)[0]: the first of the values counted most.
MostCommon(list) ==
    LET values == Distinct(list, {})
        best == CHOOSE i \in 1..Len(values) :
                    /\ \A j \in 1..Len(values) : Count(list, values[j]) <= Count(list, values[i])
                    /\ \A j \in 1..(i - 1) : Count(list, values[j]) < Count(list, values[i])
    IN <<values[best], Count(list, values[best])>>

\* _analyze_agent_patterns, one agent of the loop of line 289.
AnalyzeAgent(l, agent_id) ==
    LET actions == SelectSeq(l.blocked_actions, LAMBDA a : a.action.agent_id = agent_id)
        types == [i \in 1..Len(actions) |-> actions[i].action.action_type]
        most_common == MostCommon(types)
        pattern_id == <<"agent", agent_id, most_common[1]>>
    IN IF Len(actions) < 5 THEN l
       ELSE IF most_common[2] < 3 THEN l
       ELSE IF HasPattern(l.learned_patterns, pattern_id) THEN l
       ELSE [l EXCEPT !.learned_patterns = StorePattern(@,
               [id |-> pattern_id,
                source |-> "agent",
                pattern |-> [agent_id |-> agent_id, action_type |-> most_common[1]],
                confidence |-> Ratio(most_common[2], 10),
                example_actions |-> ExampleActions(actions),
                blocked_count |-> most_common[2],
                suggested_policy |->
                    [applies_to |-> <<most_common[1]>>,
                     condition |-> [agent_id |-> agent_id],
                     decision |-> "DENY", priority |-> 50]])]

RECURSIVE AnalyzeAgents(_, _)
AnalyzeAgents(l, agents) ==
    IF agents = <<>> THEN l
    ELSE AnalyzeAgents(AnalyzeAgent(l, Head(agents)), Tail(agents))

\* _analyze_agent_patterns
AnalyzeAgentPatterns(l) ==
    AnalyzeAgents(l, Distinct([i \in 1..Len(l.blocked_actions) |->
                                  l.blocked_actions[i].action.agent_id], {}))

\* _analyze_temporal_patterns, one hour of the loop of line 339.
AnalyzeHour(l, hour, count) ==
    LET pattern_id == <<"time_pattern", hour>>
    IN IF count < 5 THEN l
       ELSE IF HasPattern(l.learned_patterns, pattern_id) THEN l
       ELSE [l EXCEPT !.learned_patterns = StorePattern(@,
               [id |-> pattern_id,
                source |-> "time",
                pattern |-> [hour |-> hour, count |-> count],
                confidence |-> Ratio(count, 20),
                example_actions |-> <<>>,
                blocked_count |-> count,
                suggested_policy |->
                    [applies_to |-> <<"*">>,
                     condition |-> [time |-> [hour |-> hour]],
                     decision |-> "REVIEW", priority |-> 75]])]

RECURSIVE AnalyzeHours(_, _, _)
AnalyzeHours(l, hours, all) ==
    IF hours = <<>> THEN l
    ELSE AnalyzeHours(AnalyzeHour(l, Head(hours), Count(all, Head(hours))),
                      Tail(hours), all)

\* _analyze_temporal_patterns
AnalyzeTemporalPatterns(l) ==
    LET recent == IF Len(l.blocked_actions) > 100 THEN LastOf(l.blocked_actions, 100)
                  ELSE l.blocked_actions
        hours == [i \in 1..Len(recent) |-> recent[i].action.hour]
    IN IF Len(l.blocked_actions) < 20 THEN l
       ELSE AnalyzeHours(l, Distinct(hours, {}), hours)

\* _analyze_patterns
AnalyzePatterns(l, hashes) ==
    IF Len(l.blocked_actions) < 10 THEN l
    ELSE AnalyzeTemporalPatterns(AnalyzeAgentPatterns(AnalyzeClusters(l, 1, hashes)))

AnalysisPeriod == 100

\* line 74: len(self.blocked_actions) % 100 == 0
AnalysisDue(l) == Len(l.blocked_actions) % AnalysisPeriod = 0

\* A variant of DropOldest that removes the newest entry.
DropNewest(list) == SubSeq(list, 1, Len(list) - 1)

\* self.blocked_actions.pop(0)
DropOldest(list) == Tail(list)

\* add_blocked_action(action, decision) when datetime.utcnow() reads now: the learner after the call and whether
\* _analyze_patterns was called.
AddBlockedAction(l, action, decision, now, hashes) ==
    LET appended == Append(l.blocked_actions, [action |-> action, decision |-> decision])
        kept == IF Len(appended) > l.learning_window THEN DropOldest(appended)
                ELSE appended
        clustered == [l EXCEPT !.blocked_actions = kept,
                               !.action_clusters =
                                   ClusterAction(@, action, decision, now)]
        due == AnalysisDue(clustered)
    IN [learner |-> IF due THEN AnalyzePatterns(clustered, hashes) ELSE clustered,
        analyzed |-> due]

\* sorted(suggestions, key=confidence, reverse=True): a stable sort.
RECURSIVE InsertByConfidence(_, _)
InsertByConfidence(sorted, s) ==
    IF sorted = <<>> THEN <<s>>
    ELSE IF RatioLeq(s.confidence, Head(sorted).confidence)
    THEN <<Head(sorted)>> \o InsertByConfidence(Tail(sorted), s)
    ELSE <<s>> \o sorted
RECURSIVE SortByConfidence(_)
SortByConfidence(list) ==
    IF list = <<>> THEN <<>>
    ELSE InsertByConfidence(SortByConfidence(SubSeq(list, 1, Len(list) - 1)),
                            list[Len(list)])

\* get_suggestions(min_confidence)
GetSuggestions(l, min_confidence) ==
    SortByConfidence(SelectSeq(l.learned_patterns,
                               LAMBDA p : RatioLeq(min_confidence, p.confidence)))

\* clear_learning()
ClearLearning(l) ==
    [l EXCEPT !.blocked_actions = <<>>, !.learned_patterns = <<>>,
              !.action_clusters = <<>>]

\* export_suggestions(filepath): the policies written to the file, Nothing
\* when no file is written.
ExportSuggestions(l) ==
    LET suggestions == GetSuggestions(l, Ratio(1, 2))
    IN IF suggestions = <<>> THEN Nothing
       ELSE Some([i \in 1..Len(suggestions) |-> suggestions[i].suggested_policy])

\* -------------------------------------------------------- tool adapters
\* What runtime.intercept(action) does in a call: it returns a decision with
\* allow true or false, or it raises.
InterceptOutcomes == {"allow", "deny", "raise"}

Intercepted(outcome) == [ev |-> "intercept", outcome |-> outcome]
Executed == [ev |-> "execute"]
Returned(trail) == [trail |-> trail, raised |-> "none"]
Raised(trail, error) == [trail |-> trail, raised |-> error]

\* A variant of Blocked that lets every decision through.
NeverBlocked(outcome) == FALSE

\* if not decision.allow
Blocked(outcome) == outcome = "deny"

\* The wrapper secure_tool puts around func, in a call where
\* runtime.intercept does `outcome`: the events of the call, in order, and
\* the exception that leaves it.
SecureToolWrapper(outcome) ==
    IF outcome = "raise" THEN Raised(<<Intercepted(outcome)>>, "error")
    ELSE IF Blocked(outcome)
    THEN Raised(<<Intercepted(outcome)>>, "SecurityViolationError")
    ELSE Returned(<<Intercepted(outcome), Executed>>)

\* tool._run of a tool that wrap_langchain_tool has wrapped `depth` times:
\* each secure_run intercepts and then calls the _run it replaced.
RECURSIVE SecureRun(_, _)
SecureRun(depth, outcomes) ==
    IF depth = 0 THEN Returned(<<Executed>>)
    ELSE IF Head(outcomes) = "raise"
    THEN Raised(<<Intercepted(Head(outcomes))>>, "error")
    ELSE IF Blocked(Head(outcomes))
    THEN Raised(<<Intercepted(Head(outcomes))>>, "SecurityViolationError")
    ELSE LET inner == SecureRun(depth - 1, Tail(outcomes))
         IN [trail |-> <<Intercepted(Head(outcomes))>> \o inner.trail,
             raised |-> inner.raised]

\* SecureToolExecutor.invoke(tool_invocation) over the tools it was built
\* with; ToolExecutor.invoke is the stand-in of lines 38-46.
ExecutorInvoke(toolset, name, outcomes) ==
    IF name \notin DOMAIN toolset THEN Raised(<<>>, "KeyError")
    ELSE IF Head(outcomes) = "raise"
    THEN Raised(<<Intercepted(Head(outcomes))>>, "error")
    ELSE IF Blocked(Head(outcomes))
    THEN Raised(<<Intercepted(Head(outcomes))>>, "SecurityViolationError")
    ELSE IF ~toolset[name].has_run THEN Returned(<<Intercepted(Head(outcomes))>>)
    ELSE LET inner == SecureRun(toolset[name].depth, Tail(outcomes))
         IN [trail |-> <<Intercepted(Head(outcomes))>> \o inner.trail,
             raised |-> inner.raised]

\* --------------------------------------------------- AsyncBatchProcessor
\* AsyncBatchProcessor(batch_size, max_wait) at time now; max_wait is in
\* thousandths of a second. The asyncio.Lock is held only between two points
\* with no await between them (lines 341-348 and 361-363), so no task ever
\* waits for it and it is not part of the state.
AsyncBatchProcessor(batch_size, max_wait, now) ==
    [batch_size |-> batch_size, max_wait |-> max_wait, batch |-> <<>>,
     last_process_time |-> now, processing |-> FALSE]

\* lines 345-348
ShouldProcess(p, now) ==
    \/ Len(p.batch) >= p.batch_size
    \/ now - p.last_process_time >= p.max_wait

\* A variant of Busy in which _process_batch never finds a batch in process.
NeverBusy(p) == FALSE

\* lines 350 and 356: self.processing
Busy(p) == p.processing

\* add_to_batch up to its await: the processor after it, and whether a
\* _process_batch task was created.
AddToBatch(p, item, now) ==
    LET q == [p EXCEPT !.batch = Append(@, item)]
    IN [processor |-> q, created |-> ShouldProcess(q, now) /\ ~Busy(q)]

\* What _process_items gives for a list of items: a result per item, in the
\* order of the items.
ResultOf(item) == <<"result", item>>
ProcessItems(items) == [i \in 1..Len(items) |-> ResultOf(items[i])]

Pending == <<"pending">>
BatchException == <<"exception">>

\* lines 373-375 and 379-381: a future that is done is left alone.
Resolve(fut, outcome) == IF fut = Pending THEN outcome ELSE fut

\* lines 373-375: zip(batch, results).
RECURSIVE SetResults(_, _, _, _)
SetResults(futs, batch, results, i) ==
    IF i > Len(batch) \/ i > Len(results) THEN futs
    ELSE SetResults([futs EXCEPT ![batch[i]] = Resolve(@, results[i])],
                    batch, results, i + 1)

\* lines 379-381
RECURSIVE SetException(_, _, _)
SetException(futs, batch, i) ==
    IF i > Len(batch) THEN futs
    ELSE SetException([futs EXCEPT ![batch[i]] = Resolve(@, BatchException)],
                      batch, i + 1)

\* lines 383-385
Finally(p, now) == [p EXCEPT !.last_process_time = now, !.processing = FALSE]

\* _process_batch up to the call of _process_items: `taken` is the local
\* batch, empty when the call returns at line 357 or 366.
ProcessBatchBegin(p) ==
    IF Busy(p) THEN [processor |-> p, taken |-> <<>>]
    ELSE IF p.batch = <<>>
    THEN [processor |-> [p EXCEPT !.processing = FALSE], taken |-> <<>>]
    ELSE [processor |-> [p EXCEPT !.processing = TRUE, !.batch = <<>>],
          taken |-> p.batch]

\* _process_batch from the return of _process_items on: how it ended is
\* "results" or "raise".
ProcessBatchEnd(p, futs, batch, ended, now) ==
    [processor |-> Finally(p, now),
     futures |-> IF ended = "results"
                 THEN SetResults(futs, batch, ProcessItems(batch), 1)
                 ELSE SetException(futs, batch, 1)]

\* ------------------------------------------------------------------- state
VARIABLES
    policies,     \* PolicyEngine.policies
    mem,          \* PolicyEngine._rate_counters, with the observation history
    now,          \* the clock, time.time()
    evalCount,    \* evaluate calls made so far
    reloadCount,  \* reload_policies calls made so far
    loaded,       \* history: the last _load_policies call and the file it read
    last,         \* history: the last evaluate call since the last load
    twin          \* a second engine, freshly constructed over the same file

policyVars == <<policies, mem, now, evalCount, reloadCount, loaded, last, twin>>

VARIABLES
    logExists,    \* whether today's log file exists
    logLines,     \* its lines
    last_hash,    \* AuditLogger.last_hash
    verifyResult, \* history: what the last verify_chain call returned
    tampered      \* history: a line of the file was modified from outside

auditVars == <<logExists, logLines, last_hash, verifyResult, tampered>>

VARIABLES
    logger,       \* "up", "raised" (its construction raised) or "crashed"
    appending,    \* per thread: how far its append call has got, and its locals
    started,      \* history: append calls begun so far
    recentCall        \* history: the last get_recent_events call and what it returned

auditCallVars == <<logger, appending, started, recentCall>>

VARIABLES
    clock,        \* time.time(), in thousandths of a second
    advances,     \* history: how many times the clock has moved
    bucket,       \* a TokenBucket
    tbHist,       \* history: the consume calls made on it
    window,       \* a SlidingWindow
    swHist,       \* history: the add_request calls made on it
    store,        \* AdvancedRateLimiter.limiters and .configs, and the objects
    history,      \* AdvancedRateLimiter.history: the length of each agent's list
    checking,     \* per thread: how far its check_rate_limit call has got
    checks,       \* history: check_rate_limit calls begun so far
    setups,       \* history: setup_limiter calls made from outside
    lastCheck,    \* history: what the last check_rate_limit call returned
    used          \* history: the agents, action types and targets seen so far

limiterVars ==
    <<clock, advances, bucket, tbHist, window, swHist, store, history,
      checking, checks, setups, lastCheck, used>>

VARIABLES
    action_counts, \* CIAAEvaluator.action_counts
    ciaaCalls,     \* history: CIAAEvaluator.evaluate calls made so far
    passed,        \* history: per action, the times of the calls recorded
    lastEval,      \* history: the last CIAAEvaluator.evaluate call
    evaluating     \* per thread, its place in CIAAEvaluator.evaluate

ciaaVars == <<action_counts, ciaaCalls, passed, lastEval, evaluating>>

VARIABLES
    lru,       \* an LRUCache
    cacheOps,  \* history: calls made on the cache so far
    gets,      \* history: get calls since construction or the last clear
    usedAt,    \* history: per key, the call that last set or read it
    lastOp     \* history: the last call and the cache before it

cacheVars == <<lru, cacheOps, gets, usedAt, lastOp>>

VARIABLES
    pcache,     \* a PolicyCache
    policyOps,  \* history: calls made on the PolicyCache so far
    decided,    \* history: per fingerprint, the decision last stored and when
    owner,      \* history: per key of the action cache, whose decision it holds
    lastCall    \* history: the last call and the PolicyCache before it

policyCacheVars == <<pcache, policyOps, decided, owner, lastCall>>

VARIABLES
    learner,    \* a PolicyLearner
    hashes,     \* what hash() gives in this process for the texts hashed
    fed,        \* history: the (action, decision) pairs added, in order
    analyzedAt, \* history: the additions at which _analyze_patterns was called
    exported    \* the policies in the file export_suggestions wrote, if any

learnerVars == <<learner, hashes, fed, analyzedAt, exported>>

VARIABLES
    tools,      \* per tool name: how often wrap_langchain_tool wrapped it
    toolCalls,  \* history: calls made through the adapters so far
    lastTool    \* history: the last call made through an adapter

adapterVars == <<tools, toolCalls, lastTool>>

VARIABLES
    historyLists, \* AdvancedRateLimiter.history: each agent's list
    callsOf       \* history: per agent, the entry of every call, in call order

historyVars == <<historyLists, callsOf>>

VARIABLES
    processor,  \* an AsyncBatchProcessor
    futures,    \* per item, the future add_to_batch awaits
    tasks,      \* _process_batch tasks created and not yet started
    inProcess,  \* the local batch of each _process_batch inside _process_items
    handed,     \* history: per item, the batches it went to _process_items in
    batches     \* history: batches handed to _process_items so far

batchVars == <<processor, futures, tasks, inProcess, handed, batches>>

VARIABLES
    lock,     \* LRUCache.lock: the thread that holds it, or "free"
    calling   \* per thread: the LRUCache call it is in, and what is left of it

lruThreadVars == <<lock, calling>>

finalVars == <<historyVars, batchVars, lruThreadVars>>
laterVars == <<cacheVars, policyCacheVars, learnerVars, adapterVars, finalVars>>
nonPolicyVars == <<auditVars, auditCallVars, limiterVars, ciaaVars, laterVars>>
nonAuditVars == <<policyVars, limiterVars, ciaaVars, laterVars>>
nonLimiterVars == <<policyVars, auditVars, auditCallVars, ciaaVars, laterVars>>
nonCiaaVars == <<policyVars, auditVars, auditCallVars, laterVars>>
nonCacheVars == <<policyVars, auditVars, auditCallVars, limiterVars, ciaaVars,
                  learnerVars, adapterVars, finalVars>>
nonLearnerVars == <<policyVars, auditVars, auditCallVars, limiterVars, ciaaVars,
                    cacheVars, policyCacheVars, adapterVars, finalVars>>
nonAdapterVars == <<policyVars, auditVars, auditCallVars, limiterVars, ciaaVars,
                    cacheVars, policyCacheVars, learnerVars, finalVars>>
earlierVars == <<cacheVars, policyCacheVars, learnerVars, adapterVars>>
nonBatchVars == <<policyVars, auditVars, auditCallVars, limiterVars, ciaaVars,
                  earlierVars, historyVars, lruThreadVars>>
nonLruVars == <<policyVars, auditVars, auditCallVars, limiterVars, ciaaVars,
                policyCacheVars, learnerVars, adapterVars, historyVars, batchVars>>
nonLimiterHistoryVars == <<policyVars, auditVars, auditCallVars, ciaaVars, earlierVars>>
vars == <<policyVars, auditVars, auditCallVars, limiterVars, ciaaVars, laterVars>>

NoTwin == [active |-> FALSE, policies |-> <<>>, mem |-> FreshMem]
NoLast == [called |-> FALSE]

\* PolicyEngine.__init__ over the policy file f.
Construct(f) ==
    /\ LET l == LoadPolicies(<<>>, f)
       IN /\ policies = l.policies
          /\ loaded = [file |-> f, raised |-> l.raised, hadPolicies |-> FALSE]
    /\ mem = FreshMem
    /\ now = 0
    /\ evalCount = 0
    /\ reloadCount = 0
    /\ last = NoLast
    /\ twin = NoTwin


\* reload_policies() when the policy file on disk reads f (the file is read
\* by _load_policies only, so what it held in between is never seen).
ReloadPolicies(f) ==
    /\ reloadCount < MaxReloads
    /\ reloadCount' = reloadCount + 1
    /\ LET l == LoadPolicies(policies, f)
       IN /\ policies' = l.policies
          /\ loaded' = [file |-> f, raised |-> l.raised,
                        hadPolicies |-> policies # <<>>]
    /\ last' = NoLast
    /\ twin' = NoTwin
    /\ UNCHANGED <<mem, now, evalCount>>
    /\ UNCHANGED nonPolicyVars

\* reload_policies() with the file unchanged since it was loaded, and a second
\* PolicyEngine constructed over the same file at that moment.
ReloadBesideFresh ==
    /\ reloadCount < MaxReloads
    /\ ~twin.active
    /\ reloadCount' = reloadCount + 1
    /\ LET l == LoadPolicies(policies, loaded.file)
       IN /\ policies' = l.policies
          /\ loaded' = [file |-> loaded.file, raised |-> l.raised,
                        hadPolicies |-> policies # <<>>]
    /\ twin' = [active |-> TRUE,
                policies |-> LoadPolicies(<<>>, loaded.file).policies,
                mem |-> FreshMem]
    /\ last' = NoLast
    /\ UNCHANGED <<mem, now, evalCount>>
    /\ UNCHANGED nonPolicyVars

\* evaluate(action), on the engine and, when there is one, on the second
\* engine too (the same action stream at the same times).
Evaluate(action) ==
    /\ evalCount < MaxEvals
    /\ evalCount' = evalCount + 1
    /\ LET e == EvaluateOn(policies, action, mem, now)
           t == EvaluateOn(twin.policies, action, twin.mem, now)
       IN /\ mem' = e.mem
          /\ twin' = IF twin.active THEN [twin EXCEPT !.mem = t.mem] ELSE twin
          /\ last' = [called |-> TRUE, action |-> action, result |-> e.result,
                      trace |-> e.trace,
                      twinResult |-> IF twin.active THEN t.result ELSE e.result]
    /\ UNCHANGED <<policies, now, reloadCount, loaded>>
    /\ UNCHANGED nonPolicyVars

Tick ==
    /\ now < MaxTime
    /\ now' = now + 1
    /\ UNCHANGED <<policies, mem, evalCount, reloadCount, loaded, last, twin>>
    /\ UNCHANGED nonPolicyVars

NextPolicy ==
    \/ \E f \in PolicyFiles : ReloadPolicies(f)
    \/ \E a \in Actions : Evaluate(a)

\* An engine over a file with learned rules.
NextLearned ==
    \/ \E f \in LearnedFiles : ReloadPolicies(f)
    \/ \E a \in Actions : Evaluate(a)

NextRate ==
    \/ ReloadBesideFresh
    \/ \E a \in Actions : Evaluate(a)
    \/ Tick

\* AuditLogger.__init__ over a directory without today's file.
LoggerInit ==
    /\ logExists = FALSE
    /\ logLines = <<>>
    /\ last_hash = LoadLastHash(FALSE, <<>>).hash
    /\ verifyResult = "none"
    /\ tampered = FALSE
    /\ logger = "up"
    /\ appending = [t \in Threads |-> Idle]
    /\ started = 0
    /\ recentCall = NoRecent

\* append(action, decision, ciaa_evaluation); the event is stamped with the
\* number of the line it becomes.
AppendEvent(req, dec, ciaa) ==
    /\ logger = "up"
    /\ Len(logLines) < MaxLog
    /\ LET audit_event ==
              AuditEvent(EventData(req, dec, ciaa, Len(logLines)), last_hash)
       IN /\ logLines' = WriteLine(logLines, JsonDumps(audit_event))
          /\ last_hash' = audit_event.hash
    /\ logExists' = TRUE
    /\ verifyResult' = "none"
    /\ recentCall' = NoRecent
    /\ UNCHANGED <<tampered, logger, appending, started>>
    /\ UNCHANGED nonAuditVars

\* append(action, decision, ciaa_evaluation) in which the write of lines
\* 71-72 raises: line 75 is not reached. open(.., 'a') has created the file
\* unless it is open itself that raised.
AppendRaises(req, dec, ciaa, failure) ==
    /\ logger = "up"
    /\ Len(logLines) < MaxLog
    /\ LET audit_event ==
              AuditEvent(EventData(req, dec, ciaa, Len(logLines)), last_hash)
       IN logLines' = WriteFails(logLines, JsonDumps(audit_event), failure)
    /\ logExists' = (logExists \/ failure = "part")
    /\ verifyResult' = "none"
    /\ recentCall' = NoRecent
    /\ UNCHANGED <<last_hash, tampered, logger, appending, started>>
    /\ UNCHANGED nonAuditVars

VerifyChainCall ==
    /\ verifyResult' = VerifyChain(logExists, logLines)
    /\ UNCHANGED <<logExists, logLines, last_hash, tampered>>
    /\ UNCHANGED auditCallVars
    /\ UNCHANGED nonAuditVars

\* A new AuditLogger over the same directory (a restart).
NewLogger ==
    /\ \A t \in Threads : appending[t].pc = "idle"
    /\ LET l == LoadLastHash(logExists, logLines)
       IN /\ logger' = IF l.raised THEN "raised" ELSE "up"
          /\ last_hash' = IF l.raised THEN last_hash ELSE l.hash
    /\ verifyResult' = "none"
    /\ recentCall' = NoRecent
    /\ UNCHANGED <<logExists, logLines, tampered, appending, started>>
    /\ UNCHANGED nonAuditVars

\* The modifications of one line made from outside the logger.
Replaced(line, mod) ==
    CASE mod = "action_request" ->
            [line EXCEPT !.data.action_request.target =
                CHOOSE t \in LoggedTargets : t # line.data.action_request.target]
      [] mod = "decision" ->
            [line EXCEPT !.data.decision =
                CHOOSE d \in Verdicts : d # line.data.decision]
      [] mod = "ciaa_evaluation" ->
            [line EXCEPT !.data.ciaa_evaluation =
                CHOOSE c \in Ciaa : c # line.data.ciaa_evaluation]
      [] mod = "timestamp" ->
            [line EXCEPT !.data.timestamp = line.data.timestamp + 1]
      [] mod = "hash" -> [line EXCEPT !.hash = Append(line.hash, line.data)]
      [] mod = "previous_hash" ->
            [line EXCEPT !.previous_hash = Append(line.previous_hash, line.data)]
      [] mod = "rehashed" ->
            LET d == [line.data EXCEPT !.decision =
                         CHOOSE v \in Verdicts : v # line.data.decision]
            IN [line EXCEPT !.data = d, !.hash = CalculateHash(d, line.previous_hash)]
      [] OTHER -> [line EXCEPT !.form = mod]

Modifications ==
    {"action_request", "decision", "ciaa_evaluation", "timestamp", "hash",
     "previous_hash", "rehashed", "respaced", "broken", "hashkey", "prevkey"}

\* One line of a file on which verify_chain returns true is modified.
Tamper(i, mod) ==
    /\ ~tampered
    /\ logExists
    /\ i \in 1..Len(logLines)
    /\ VerifyChain(logExists, logLines) = "true"
    /\ logLines' = [logLines EXCEPT ![i] = Replaced(logLines[i], mod)]
    /\ tampered' = TRUE
    /\ verifyResult' = "none"
    /\ UNCHANGED <<logExists, last_hash>>
    /\ UNCHANGED auditCallVars
    /\ UNCHANGED nonAuditVars

\* The last k lines of a file on which verify_chain returns true are deleted
\* from outside the logger.
Truncate(k) ==
    /\ ~tampered
    /\ logExists
    /\ k \in 1..Len(logLines)
    /\ VerifyChain(logExists, logLines) = "true"
    /\ logLines' = SubSeq(logLines, 1, Len(logLines) - k)
    /\ tampered' = TRUE
    /\ verifyResult' = "none"
    /\ UNCHANGED <<logExists, last_hash>>
    /\ UNCHANGED auditCallVars
    /\ UNCHANGED nonAuditVars

\* append by thread t, lines 45-61: event_data is built and hashed over the
\* last_hash read now; the event is stamped with the number of appends begun.
AppendHash(t, req, dec, ciaa) ==
    /\ logger = "up"
    /\ appending[t].pc = "idle"
    /\ started < MaxLog
    /\ started' = started + 1
    /\ LET event_data == EventData(req, dec, ciaa, started)
       IN appending' = [appending EXCEPT ![t] =
              [pc |-> "hashed", event_data |-> event_data,
               event_hash |-> CalculateHash(event_data, last_hash)]]
    /\ UNCHANGED <<logger, recentCall>>
    /\ UNCHANGED auditVars
    /\ UNCHANGED nonAuditVars

\* lines 64-68: audit_event is built; self.last_hash is read a second time.
AppendBuild(t) ==
    /\ appending[t].pc = "hashed"
    /\ appending' = [appending EXCEPT ![t] =
           [pc |-> "built",
            audit_event |-> [hash |-> appending[t].event_hash,
                             previous_hash |-> last_hash,
                             data |-> appending[t].event_data]]]
    /\ UNCHANGED <<logger, started, recentCall>>
    /\ UNCHANGED auditVars
    /\ UNCHANGED nonAuditVars

\* lines 71-72: the line is added at the end of the file.
AppendWrite(t) ==
    /\ appending[t].pc = "built"
    /\ logLines' = Append(logLines, JsonDumps(appending[t].audit_event))
    /\ logExists' = TRUE
    /\ verifyResult' = "none"
    /\ appending' = [appending EXCEPT ![t] =
           [pc |-> "written", event_hash |-> appending[t].audit_event.hash]]
    /\ UNCHANGED <<last_hash, tampered>>
    /\ UNCHANGED <<logger, started, recentCall>>
    /\ UNCHANGED nonAuditVars

\* line 75: self.last_hash = event_hash.
AppendUpdate(t) ==
    /\ appending[t].pc = "written"
    /\ last_hash' = appending[t].event_hash
    /\ appending' = [appending EXCEPT ![t] = Idle]
    /\ UNCHANGED <<logExists, logLines, verifyResult, tampered>>
    /\ UNCHANGED <<logger, started, recentCall>>
    /\ UNCHANGED nonAuditVars

\* The process stops inside the write of line 72: part of the line is in the
\* file, and the logger is gone.
CrashMidAppend(req, dec, ciaa) ==
    /\ logger = "up"
    /\ Len(logLines) < MaxLog
    /\ LET audit_event ==
              AuditEvent(EventData(req, dec, ciaa, Len(logLines)), last_hash)
       IN logLines' = Append(logLines,
                             [JsonDumps(audit_event) EXCEPT !.form = "broken"])
    /\ logExists' = TRUE
    /\ logger' = "crashed"
    /\ verifyResult' = "none"
    /\ recentCall' = NoRecent
    /\ UNCHANGED <<last_hash, tampered, appending, started>>
    /\ UNCHANGED nonAuditVars

\* get_recent_events(limit).
GetRecentEventsCall(limit) ==
    /\ logger = "up"
    /\ LET r == GetRecentEvents(logExists, logLines, limit)
       IN recentCall' = [called |-> TRUE, limit |-> limit, raised |-> r.raised,
                     events |-> r.events]
    /\ UNCHANGED <<logger, appending, started>>
    /\ UNCHANGED auditVars
    /\ UNCHANGED nonAuditVars

NextAudit ==
    \/ \E req \in Requests, dec \in Verdicts, ciaa \in Ciaa :
          AppendEvent(req, dec, ciaa)
    \/ VerifyChainCall
    \/ NewLogger

NextTamper ==
    \/ \E req \in Requests, dec \in Verdicts, ciaa \in Ciaa :
          AppendEvent(req, dec, ciaa)
    \/ VerifyChainCall
    \/ \E i \in 1..MaxLog, mod \in Modifications : Tamper(i, mod)

NextTruncate ==
    \/ \E req \in Requests : AppendEvent(req, "DENY", "none")
    \/ VerifyChainCall
    \/ \E k \in 1..MaxLog : Truncate(k)

\* ------------------------------------------------- rate limiter actions
MaxAdvances == 3
MaxConsumes == 21
MaxAdds == 4

NoLimiter == [kind |-> "none"]
NoCalls == [calls |-> 0]

rateLimiterVars ==
    <<store, history, checking, checks, setups, lastCheck, used>>

NoCheck == [called |-> FALSE]
NoneUsed ==
    [agents |-> {}, types |-> {}, targets |-> [tg \in LimiterTargets |-> 0]]

\* AdvancedRateLimiter.__init__.
RateLimiterInit ==
    /\ store = EmptyStore
    /\ history = [a \in LimiterAgents |-> 0]
    /\ checking = [t \in Threads |-> Idle]
    /\ checks = 0
    /\ setups = 0
    /\ lastCheck = NoCheck
    /\ used = NoneUsed

\* time.time() is positive; no bucket and no window yet.
LimiterIdle ==
    /\ clock = Milli
    /\ advances = 0
    /\ bucket = NoLimiter
    /\ tbHist = NoCalls
    /\ window = NoLimiter
    /\ swHist = NoCalls
    /\ RateLimiterInit

\* TokenBucket(rate, capacity) is constructed.
BucketInit(rate, capacity) ==
    /\ clock = Milli
    /\ advances = 0
    /\ bucket = TokenBucket(rate, capacity, Milli)
    /\ tbHist = [calls |-> 0, ones |-> TRUE, steady |-> TRUE,
                 last |-> [called |-> FALSE]]
    /\ window = NoLimiter
    /\ swHist = NoCalls
    /\ RateLimiterInit

\* SlidingWindow(max_requests, window_seconds) is constructed.
WindowInit(max_requests, window_seconds) ==
    /\ clock = Milli
    /\ advances = 0
    /\ bucket = NoLimiter
    /\ tbHist = NoCalls
    /\ window = SlidingWindow(max_requests, window_seconds)
    /\ swHist = [calls |-> 0, admitted |-> <<>>, lastNow |-> 0,
                 last |-> [called |-> FALSE]]
    /\ RateLimiterInit

\* Time passes.
Advance(d) ==
    /\ advances < MaxAdvances
    /\ advances' = advances + 1
    /\ clock' = clock + d
    /\ UNCHANGED <<bucket, tbHist, window, swHist>>
    /\ UNCHANGED rateLimiterVars
    /\ UNCHANGED nonLimiterVars

\* time.time() is the system's wall clock: it is set back (a correction of
\* the clock), so that the next reading is lower than the last.
ClockSetBack(d) ==
    /\ advances < MaxAdvances
    /\ clock - d >= 0
    /\ advances' = advances + 1
    /\ clock' = clock - d
    /\ UNCHANGED <<bucket, tbHist, window, swHist>>
    /\ UNCHANGED rateLimiterVars
    /\ UNCHANGED nonLimiterVars

\* bucket.consume(tokens). The history keeps whether every call so far asked
\* for one token (ones) and came 1/rate seconds or more after the call before
\* it (steady).
ConsumeCall(tokens) ==
    /\ tbHist.calls < MaxConsumes
    /\ LET r == Consume(bucket, tokens, clock)
           spaced == \/ tbHist.calls = 0
                     \/ (clock - bucket.last_update) * bucket.rate >= Milli
       IN /\ bucket' = r.limiter
          /\ tbHist' = [calls |-> tbHist.calls + 1,
                        ones |-> tbHist.ones /\ tokens = 1,
                        steady |-> tbHist.steady /\ tokens = 1 /\ spaced,
                        last |-> [called |-> TRUE, tokens |-> tokens,
                                  now |-> clock, before |-> bucket,
                                  success |-> r.success,
                                  wait_time |-> r.wait_time]]
    /\ UNCHANGED <<clock, advances, window, swHist>>
    /\ UNCHANGED rateLimiterVars
    /\ UNCHANGED nonLimiterVars

\* The time an add_request call works with (line 93).
EffectiveNow(timestamp) ==
    IF timestamp = NoStamp \/ timestamp = 0 THEN clock ELSE timestamp

\* window.add_request(timestamp), at a time not before the call before it.
AddRequestCall(timestamp) ==
    /\ swHist.calls < MaxAdds
    /\ EffectiveNow(timestamp) >= swHist.lastNow
    /\ LET r == AddRequest(window, timestamp, clock)
           at == EffectiveNow(timestamp)
       IN /\ window' = r.limiter
          /\ swHist' = [calls |-> swHist.calls + 1,
                        admitted |-> IF r.success /\ ~r.raised
                                     THEN Append(swHist.admitted, at)
                                     ELSE swHist.admitted,
                        lastNow |-> at,
                        last |-> [called |-> TRUE, now |-> at,
                                  before |-> window, success |-> r.success,
                                  wait_time |-> r.wait_time,
                                  raised |-> r.raised]]
    /\ UNCHANGED <<clock, advances, bucket, tbHist>>
    /\ UNCHANGED rateLimiterVars
    /\ UNCHANGED nonLimiterVars

MaxChecks == 4
MaxSetups == 2

Seen(agent_id, action_type, target) ==
    [agents |-> used.agents \cup {agent_id},
     types |-> used.types \cup {action_type},
     targets |-> [used.targets EXCEPT ![target] = @ + 1]]

\* setup_limiter(dimension, identifier, config), called from outside, before
\* the first check_rate_limit.
SetupLimiterCall(key, config) ==
    /\ setups < MaxSetups
    /\ checks = 0
    /\ \A t \in Threads : checking[t].pc = "idle"
    /\ setups' = setups + 1
    /\ store' = SetupLimiter(store, key, config, clock)
    /\ UNCHANGED <<history, checking, checks, lastCheck, used>>
    /\ UNCHANGED <<clock, advances, bucket, tbHist, window, swHist>>
    /\ UNCHANGED nonLimiterVars

\* check_rate_limit(agent_id, action_type, target), start to end.
CheckRateLimit(agent_id, action_type, target) ==
    /\ checks < MaxChecks
    /\ \A t \in Threads : checking[t].pc = "idle"
    /\ checks' = checks + 1
    /\ LET acc == CheckFrom(DimensionsToCheck(agent_id, action_type, target), 1,
                            [store |-> store, results |-> NoResults,
                             allowed |-> TRUE, wait_times |-> <<>>],
                            clock)
       IN /\ store' = acc.store
          /\ lastCheck' = Details(acc, agent_id, action_type, target)
    /\ history' = [history EXCEPT ![agent_id] = Recorded(@)]
    /\ used' = Seen(agent_id, action_type, target)
    /\ UNCHANGED <<checking, setups>>
    /\ UNCHANGED <<clock, advances, bucket, tbHist, window, swHist>>
    /\ UNCHANGED nonLimiterVars

\* The place of the next entry of dims, from i on, whose identifier is not
\* None (lines 174-176); Len(dims) + 1 when there is none.
RECURSIVE NextDimension(_, _)
NextDimension(dims, i) ==
    IF i > Len(dims) \/ dims[i].present THEN i
    ELSE NextDimension(dims, i + 1)

CurrentKey(t) ==
    Key(checking[t].dims[checking[t].i].dimension,
        checking[t].dims[checking[t].i].identifier)

\* check_rate_limit by thread t, lines 163-176: the call begins.
CheckBegin(t, agent_id, action_type, target) ==
    /\ checks < MaxChecks
    /\ checking[t].pc = "idle"
    /\ checks' = checks + 1
    /\ LET dims == DimensionsToCheck(agent_id, action_type, target)
       IN checking' = [checking EXCEPT ![t] =
              [pc |-> "lookup", dims |-> dims, i |-> NextDimension(dims, 1),
               ref |-> 0, results |-> NoResults, allowed |-> TRUE,
               wait_times |-> <<>>, agent_id |-> agent_id,
               action_type |-> action_type, target |-> target]]
    /\ used' = Seen(agent_id, action_type, target)
    /\ UNCHANGED <<store, history, setups, lastCheck>>
    /\ UNCHANGED <<clock, advances, bucket, tbHist, window, swHist>>
    /\ UNCHANGED nonLimiterVars

\* line 178: is there a limiter for the key?
CheckLookup(t) ==
    /\ checking[t].pc = "lookup"
    /\ checking' = [checking EXCEPT ![t].pc =
           IF store.limiters[CurrentKey(t)] = 0 THEN "setup" ELSE "fetch"]
    /\ UNCHANGED <<store, history, checks, setups, lastCheck, used>>
    /\ UNCHANGED <<clock, advances, bucket, tbHist, window, swHist>>
    /\ UNCHANGED nonLimiterVars

\* lines 180-181: a limiter is made from the default config and stored.
CheckSetup(t) ==
    /\ checking[t].pc = "setup"
    /\ store' = SetupLimiter(store, CurrentKey(t),
                   DefaultConfigFor(checking[t].dims[checking[t].i].dimension),
                   clock)
    /\ checking' = [checking EXCEPT ![t].pc = "fetch"]
    /\ UNCHANGED <<history, checks, setups, lastCheck, used>>
    /\ UNCHANGED <<clock, advances, bucket, tbHist, window, swHist>>
    /\ UNCHANGED nonLimiterVars

\* line 183: limiter = self.limiters[dimension][identifier]
CheckFetch(t) ==
    /\ checking[t].pc = "fetch"
    /\ checking' = [checking EXCEPT ![t].pc = "use",
                                    ![t].ref = store.limiters[CurrentKey(t)]]
    /\ UNCHANGED <<store, history, checks, setups, lastCheck, used>>
    /\ UNCHANGED <<clock, advances, bucket, tbHist, window, swHist>>
    /\ UNCHANGED nonLimiterVars

\* lines 185-198: the limiter is used, under its own lock, and the result
\* noted; then the next dimension, or the end of the loop.
CheckUse(t) ==
    /\ checking[t].pc = "use"
    /\ LET c == checking[t]
           r == UseAt(store.heap, c.ref, clock)
           next == NextDimension(c.dims, c.i + 1)
       IN /\ store' = [store EXCEPT !.heap = r.heap]
          /\ checking' = [checking EXCEPT ![t] =
                 [c EXCEPT !.pc = IF next > Len(c.dims) THEN "finish"
                                  ELSE "lookup",
                           !.i = next,
                           !.ref = 0,
                           !.results[c.dims[c.i].dimension] = Result(r),
                           !.allowed = c.allowed /\ r.success,
                           !.wait_times = IF r.success THEN c.wait_times
                                          ELSE Append(c.wait_times, r.wait_time)]]
    /\ UNCHANGED <<history, checks, setups, lastCheck, used>>
    /\ UNCHANGED <<clock, advances, bucket, tbHist, window, swHist>>
    /\ UNCHANGED nonLimiterVars

\* lines 200-222: details, the history entry, and the return.
CheckFinish(t) ==
    /\ checking[t].pc = "finish"
    /\ lastCheck' = Details(checking[t], checking[t].agent_id,
                            checking[t].action_type, checking[t].target)
    /\ history' = [history EXCEPT ![checking[t].agent_id] = Recorded(@)]
    /\ checking' = [checking EXCEPT ![t] = Idle]
    /\ UNCHANGED <<store, checks, setups, used>>
    /\ UNCHANGED <<clock, advances, bucket, tbHist, window, swHist>>
    /\ UNCHANGED nonLimiterVars

\* The limiters set up from outside, each with its config.
Setups ==
    {<<Key("per_agent", Ident("a1")),
       RateLimitConfig(2, 1, 60, "token_bucket")>>,
     <<Key("per_action", Ident("tool_call")),
       RateLimitConfig(10, 1, 1, "sliding_window")>>,
     <<Key("per_action", Ident("tool_call")),
       RateLimitConfig(10, 1, 60, "fixed_window")>>}
LimiterStep == Milli \div 2

\* Limiters are set up from outside, then one caller comes after another.
NextLimiter ==
    \/ \E su \in Setups : SetupLimiterCall(su[1], su[2])
    \/ \E tg \in LimiterTargets : CheckRateLimit("a1", "tool_call", tg)
    \/ Advance(LimiterStep)

\* A narrow per_action limit, and a per_agent limit a little wider.
ExhaustSetups ==
    {<<Key("per_action", Ident("tool_call")),
       RateLimitConfig(1, 1, 60, "token_bucket")>>,
     <<Key("per_agent", Ident("a1")),
       RateLimitConfig(1, 2, 60, "sliding_window")>>,
     <<Key("per_agent", Ident("a1")),
       RateLimitConfig(1, 2, 60, "token_bucket")>>}

NextExhaust ==
    \/ \E su \in ExhaustSetups : SetupLimiterCall(su[1], su[2])
    \/ \E tg \in LimiterTargets : CheckRateLimit("a1", "tool_call", tg)
    \/ Advance(LimiterStep)

\* Each agent with an action type of its own.
Callers ==
    {<<"a1", "tool_call">>, <<"a2", "file_read">>, <<"a3", "api_call">>,
     <<"a4", "network_request">>}

\* One caller after another on a limiter nobody has set up.
NextSensitive ==
    \/ \E c \in Callers, tg \in LimiterTargets : CheckRateLimit(c[1], c[2], tg)
    \/ Advance(LimiterStep)

\* Two threads call check_rate_limit on one limiter; no time passes.
NextChecking ==
    \/ \E t \in Threads, a \in {"a1", "a2"} :
          CheckBegin(t, a, "tool_call", TargetLogs)
    \/ \E t \in Threads : CheckLookup(t)
    \/ \E t \in Threads : CheckSetup(t)
    \/ \E t \in Threads : CheckFetch(t)
    \/ \E t \in Threads : CheckUse(t)
    \/ \E t \in Threads : CheckFinish(t)

BucketConfigs == {<<10, 20>>, <<1, 3>>, <<10, 1>>, <<3, 1>>}
ConsumeAmounts == {1, 3}
BucketSteps == {Milli \div 20, Milli \div 10}

\* consume calls at clock readings that rise, stay or fall.
NextBucketClock ==
    \/ \E tokens \in ConsumeAmounts : ConsumeCall(tokens)
    \/ \E d \in BucketSteps : Advance(d)
    \/ \E d \in BucketSteps : ClockSetBack(d)

NextBucket ==
    \/ \E tokens \in ConsumeAmounts : ConsumeCall(tokens)
    \/ \E d \in BucketSteps : Advance(d)

WindowConfigs == {<<0, 1>>, <<1, 1>>, <<2, 1>>, <<2, 2>>}
WindowStep == Milli \div 2
Stamps == {NoStamp, 0} \cup {Milli + k * WindowStep : k \in 0..MaxAdvances}

NextWindow ==
    \/ \E timestamp \in Stamps : AddRequestCall(timestamp)
    \/ Advance(WindowStep)

\* --------------------------------------------------------- CIAA actions
MaxCiaaCalls == 11

\* CIAAEvaluator.__init__.
CiaaInit ==
    /\ action_counts = [k \in CiaaKeys |-> <<>>]
    /\ ciaaCalls = 0
    /\ passed = [a \in CiaaActions |-> <<>>]
    /\ lastEval = [called |-> FALSE]
    /\ evaluating = [t \in Threads |-> Idle]

\* How many recorded calls of the action lie less than a minute before now.
RecentlyPassed(action, at) ==
    Len(SelectSeq(passed[action], LAMBDA ts : at - ts < Minute))

\* CIAAEvaluator.evaluate(action), lines 48-54: _violates_availability is
\* called, and called a second time for the value when the first call
\* returned a violation; datetime.utcnow() reads `lag` later in the second
\* call. (The C and I checks read only the action and change nothing; of the
\* result the model keeps the entry "A".)
CiaaEvaluate(action, lag) ==
    /\ ciaaCalls < MaxCiaaCalls
    /\ ciaaCalls' = ciaaCalls + 1
    /\ \A t \in Threads : evaluating[t] = Idle
    /\ UNCHANGED evaluating
    /\ LET first == ViolatesAvailability(action_counts, action, clock)
           second == ViolatesAvailability(first.counts, action, clock + lag)
           before == RecentlyPassed(action, clock)
       IN IF first.violation = NoViolation
          THEN /\ lag = 0
               /\ action_counts' = first.counts
               /\ passed' = [passed EXCEPT ![action] = Append(@, clock)]
               /\ lastEval' = [called |-> TRUE, action |-> action,
                               before |-> before, hasA |-> FALSE,
                               A |-> NoViolation, recorded |-> TRUE]
          ELSE /\ action_counts' = second.counts
               /\ passed' = IF second.recorded
                            THEN [passed EXCEPT ![action] = Append(@, clock + lag)]
                            ELSE passed
               /\ lastEval' = [called |-> TRUE, action |-> action,
                               before |-> before, hasA |-> TRUE,
                               A |-> second.violation,
                               recorded |-> second.recorded]
    /\ clock' = clock + lag
    /\ UNCHANGED <<advances, bucket, tbHist, window, swHist>>
    /\ UNCHANGED rateLimiterVars
    /\ UNCHANGED nonCiaaVars

\* The same call made by a thread, one step per place where another thread
\* can run. evaluate line 49 (pass 1) or line 50 (pass 2) enters
\* _violates_availability: lines 101-102.
EvaluateBegin(t, action) ==
    /\ ciaaCalls < MaxCiaaCalls
    /\ evaluating[t] = Idle
    /\ ciaaCalls' = ciaaCalls + 1
    /\ evaluating' = [evaluating EXCEPT
                        ![t] = [pc |-> "prune", action |-> action, pass |-> 1]]
    /\ UNCHANGED <<action_counts, passed, lastEval>>
    /\ UNCHANGED limiterVars
    /\ UNCHANGED nonCiaaVars

\* lines 105-108, the right-hand side: the list of the key as it is now,
\* without the entries a minute old.
AvailabilityPrune(t) ==
    LET f == evaluating[t]
    IN /\ f.pc = "prune"
       /\ evaluating' = [evaluating EXCEPT
                           ![t] = [pc |-> "store", action |-> f.action,
                                   pass |-> f.pass, at |-> clock,
                                   kept |-> SelectSeq(action_counts[CiaaKey(f.action)],
                                                      LAMBDA ts : clock - ts < Minute)]]
       /\ UNCHANGED <<action_counts, ciaaCalls, passed, lastEval>>
       /\ UNCHANGED limiterVars
       /\ UNCHANGED nonCiaaVars

\* line 105, the assignment self.action_counts[key] = [...]
AvailabilityStore(t) ==
    LET f == evaluating[t]
    IN /\ f.pc = "store"
       /\ action_counts' = [action_counts EXCEPT ![CiaaKey(f.action)] = f.kept]
       /\ evaluating' = [evaluating EXCEPT
                           ![t] = [pc |-> "len", action |-> f.action,
                                   pass |-> f.pass, at |-> f.at]]
       /\ UNCHANGED <<ciaaCalls, passed, lastEval>>
       /\ UNCHANGED limiterVars
       /\ UNCHANGED nonCiaaVars

\* line 111, left operand: len(self.action_counts[key]), read before
\* self._get_rate_limit(action) is called.
AvailabilityLen(t) ==
    LET f == evaluating[t]
    IN /\ f.pc = "len"
       /\ evaluating' = [evaluating EXCEPT
                           ![t] = [pc |-> "decide", action |-> f.action,
                                   pass |-> f.pass, at |-> f.at,
                                   length |-> Len(action_counts[CiaaKey(f.action)])]]
       /\ UNCHANGED <<action_counts, ciaaCalls, passed, lastEval>>
       /\ UNCHANGED limiterVars
       /\ UNCHANGED nonCiaaVars

\* lines 111-117: the comparison, then the message or the append to the list
\* the key holds now; back in evaluate, a message on line 49 leads to the
\* second call on line 50.
AvailabilityDecide(t) ==
    LET f == evaluating[t]
        key == CiaaKey(f.action)
    IN /\ f.pc = "decide"
       /\ IF f.length >= GetRateLimit(f.action)
          THEN /\ evaluating' = [evaluating EXCEPT
                                   ![t] = IF f.pass = 1
                                          THEN [pc |-> "prune", action |-> f.action,
                                                pass |-> 2]
                                          ELSE Idle]
               /\ UNCHANGED <<action_counts, passed>>
          ELSE /\ action_counts' = [action_counts EXCEPT ![key] = Append(@, f.at)]
               /\ passed' = [passed EXCEPT ![f.action] = Append(@, f.at)]
               /\ evaluating' = [evaluating EXCEPT ![t] = Idle]
       /\ UNCHANGED <<ciaaCalls, lastEval>>
       /\ UNCHANGED limiterVars
       /\ UNCHANGED nonCiaaVars

\* The action the two threads evaluate.
SharedAction == CiaaAction(<<"a1", ":", "api_call", ":", "host">>, "network_request", <<"x">>)

NextCiaaThreads ==
    \E t \in Threads :
        \/ EvaluateBegin(t, SharedAction)
        \/ AvailabilityPrune(t)
        \/ AvailabilityStore(t)
        \/ AvailabilityLen(t)
        \/ AvailabilityDecide(t)

CiaaStep == Minute - 1
Lags == {0, 1}

NextCiaa ==
    \/ \E a \in CiaaActions, lag \in Lags : CiaaEvaluate(a, lag)
    \/ Advance(CiaaStep)

\* -------------------------------------------------------- cache actions
MaxCacheOps == 4
DefaultMaxsize == 1000

LruKeys == {"k1", "k2", "k3"}
NoOp == [op |-> "none"]

\* LRUCache(maxsize, ttl) is constructed.
LruInit(maxsize, ttl) ==
    /\ lru = LRUCache(maxsize, ttl)
    /\ cacheOps = 0
    /\ gets = 0
    /\ usedAt = [k \in LruKeys |-> 0]
    /\ lastOp = NoOp


\* lru.get(key)
LruGetCall(key) ==
    /\ cacheOps < MaxCacheOps
    /\ LET r == LruGet(lru, key, clock)
       IN /\ lru' = r.lru
          /\ lastOp' = [op |-> "get", key |-> key, at |-> clock, before |-> lru,
                        returns |-> r.returns]
          /\ usedAt' = IF r.returns = Miss THEN usedAt
                       ELSE [usedAt EXCEPT ![key] = cacheOps + 1]
    /\ cacheOps' = cacheOps + 1
    /\ gets' = gets + 1
    /\ UNCHANGED policyCacheVars
    /\ UNCHANGED nonCacheVars

\* lru.set(key, value, ttl)
LruSetCall(key, value, ttl) ==
    /\ cacheOps < MaxCacheOps
    /\ LET r == LruSet(lru, key, value, ttl, clock)
       IN /\ lru' = r.lru
          /\ lastOp' = [op |-> "set", key |-> key, at |-> clock, before |-> lru,
                        used |-> usedAt, raised |-> r.raised]
          /\ usedAt' = IF r.raised THEN usedAt
                       ELSE [usedAt EXCEPT ![key] = cacheOps + 1]
    /\ cacheOps' = cacheOps + 1
    /\ UNCHANGED gets
    /\ UNCHANGED policyCacheVars
    /\ UNCHANGED nonCacheVars

\* lru.delete(key)
LruDeleteCall(key) ==
    /\ cacheOps < MaxCacheOps
    /\ lru' = LruDelete(lru, key)
    /\ lastOp' = [op |-> "delete", key |-> key, at |-> clock, before |-> lru]
    /\ cacheOps' = cacheOps + 1
    /\ UNCHANGED <<gets, usedAt>>
    /\ UNCHANGED policyCacheVars
    /\ UNCHANGED nonCacheVars

\* lru.clear()
LruClearCall ==
    /\ cacheOps < MaxCacheOps
    /\ lru' = LruClear(lru)
    /\ lastOp' = [op |-> "clear", at |-> clock, before |-> lru]
    /\ cacheOps' = cacheOps + 1
    /\ gets' = 0
    /\ UNCHANGED usedAt
    /\ UNCHANGED policyCacheVars
    /\ UNCHANGED nonCacheVars

MaxPolicyOps == 4

Fingerprints ==
    {Fingerprint(<<"h">>, <<"a">>, <<"t">>, <<"x", ":", "y">>),
     Fingerprint(<<"y", ":", "h">>, <<"a">>, <<"t">>, <<"x">>),
     Fingerprint(<<"h">>, <<"b">>, <<"t">>, <<"a">>),
     Fingerprint(<<"h">>, <<"b">>, <<"t">>, <<"x">>)}
DecisionKeys == {DecisionKey(fp) : fp \in Fingerprints}
CachedDecisions == {<<TRUE, "ok">>, <<FALSE, "blocked">>}
CacheAgents == {<<"a">>, <<"b">>}
PolicyId == <<"p1">>
RateLimitKey == <<"rl", ":", "a", ":", "x">>

\* PolicyCache() is constructed.
PolicyCacheInit ==
    /\ pcache = PolicyCache
    /\ policyOps = 0
    /\ decided = [fp \in Fingerprints |-> Nothing]
    /\ owner = [k \in DecisionKeys |-> Nothing]
    /\ lastCall = NoOp

\* pcache.get_action_decision(...)
GetActionDecisionCall(fp) ==
    /\ policyOps < MaxPolicyOps
    /\ policyOps' = policyOps + 1
    /\ LET r == GetActionDecision(pcache, fp, clock)
       IN /\ pcache' = r.pcache
          /\ lastCall' = [op |-> "get_action_decision", fp |-> fp, at |-> clock,
                          before |-> pcache, returns |-> r.returns]
    /\ UNCHANGED <<decided, owner>>
    /\ UNCHANGED cacheVars
    /\ UNCHANGED nonCacheVars

\* pcache.set_action_decision(...)
SetActionDecisionCall(fp, d) ==
    /\ policyOps < MaxPolicyOps
    /\ policyOps' = policyOps + 1
    /\ LET r == SetActionDecision(pcache, fp, d[1], d[2], clock)
       IN /\ pcache' = r.pcache
          /\ lastCall' = [op |-> "set_action_decision", fp |-> fp, at |-> clock,
                          before |-> pcache, raised |-> r.raised]
    /\ decided' = [decided EXCEPT ![fp] = Some([value |-> d, at |-> clock])]
    /\ owner' = [owner EXCEPT ![DecisionKey(fp)] = Some(fp)]
    /\ UNCHANGED cacheVars
    /\ UNCHANGED nonCacheVars

\* pcache.get_policy_result(policy_id, action_hash)
GetPolicyResultCall(policy_id, action_hash) ==
    /\ policyOps < MaxPolicyOps
    /\ policyOps' = policyOps + 1
    /\ LET r == GetPolicyResult(pcache, policy_id, action_hash, clock)
       IN /\ pcache' = r.pcache
          /\ lastCall' = [op |-> "get_policy_result", at |-> clock,
                          before |-> pcache, returns |-> r.returns]
    /\ UNCHANGED <<decided, owner>>
    /\ UNCHANGED cacheVars
    /\ UNCHANGED nonCacheVars

\* pcache.set_policy_result(policy_id, action_hash, result)
SetPolicyResultCall(policy_id, action_hash, result) ==
    /\ policyOps < MaxPolicyOps
    /\ policyOps' = policyOps + 1
    /\ LET r == SetPolicyResult(pcache, policy_id, action_hash, result, clock)
       IN /\ pcache' = r.pcache
          /\ lastCall' = [op |-> "set_policy_result", at |-> clock,
                          before |-> pcache, raised |-> r.raised]
    /\ UNCHANGED <<decided, owner>>
    /\ UNCHANGED cacheVars
    /\ UNCHANGED nonCacheVars

\* pcache.get_rate_limit(key)
GetRateLimitCall(key) ==
    /\ policyOps < MaxPolicyOps
    /\ policyOps' = policyOps + 1
    /\ LET r == GetRateLimitCached(pcache, key, clock)
       IN /\ pcache' = r.pcache
          /\ lastCall' = [op |-> "get_rate_limit", at |-> clock,
                          before |-> pcache, returns |-> r.returns]
    /\ UNCHANGED <<decided, owner>>
    /\ UNCHANGED cacheVars
    /\ UNCHANGED nonCacheVars

\* pcache.set_rate_limit(key, allowed, wait_time)
SetRateLimitCall(key, allowed, wait_time) ==
    /\ policyOps < MaxPolicyOps
    /\ policyOps' = policyOps + 1
    /\ LET r == SetRateLimitCached(pcache, key, allowed, wait_time, clock)
       IN /\ pcache' = r.pcache
          /\ lastCall' = [op |-> "set_rate_limit", at |-> clock,
                          before |-> pcache, raised |-> r.raised]
    /\ UNCHANGED <<decided, owner>>
    /\ UNCHANGED cacheVars
    /\ UNCHANGED nonCacheVars

\* pcache.invalidate_agent(agent_id)
InvalidateAgentCall(agent_id) ==
    /\ policyOps < MaxPolicyOps
    /\ policyOps' = policyOps + 1
    /\ pcache' = InvalidateAgent(pcache, agent_id)
    /\ lastCall' = [op |-> "invalidate_agent", agent_id |-> agent_id,
                    at |-> clock, before |-> pcache, owner |-> owner]
    /\ UNCHANGED <<decided, owner>>
    /\ UNCHANGED cacheVars
    /\ UNCHANGED nonCacheVars

DecisionStep == ActionCacheTtl \div 2

NextDecisions ==
    \/ \E fp \in Fingerprints : GetActionDecisionCall(fp)
    \/ \E fp \in Fingerprints, d \in CachedDecisions : SetActionDecisionCall(fp, d)
    \/ Advance(DecisionStep)

NextInvalidate ==
    \/ \E fp \in Fingerprints : SetActionDecisionCall(fp, <<FALSE, "blocked">>)
    \/ SetPolicyResultCall(PolicyId, <<"h">>, TRUE)
    \/ GetPolicyResultCall(PolicyId, <<"h">>)
    \/ SetRateLimitCall(RateLimitKey, TRUE, 0)
    \/ GetRateLimitCall(RateLimitKey)
    \/ \E a \in CacheAgents : InvalidateAgentCall(a)

\* ------------------------------------------------------ learner actions
MaxAdditions == 101
\* The additions up to which the kind of action fed is free.
MixedAdditions == 3
DefaultLearningWindow == 1000

\* What is fed: an agent, an action type, a target, the hour of the action's
\* timestamp, and the decision that blocked it.
Repeated ==
    [agent_id |-> "m", action_type |-> "tool_call", target |-> "http_request",
     hour |-> 9, decision |-> BlockedDecision("deny_external_http", {})]
Kinds ==
    {Repeated,
     [agent_id |-> "n", action_type |-> "tool_call", target |-> "shell",
      hour |-> 22, decision |-> BlockedDecision("", {"C", "A"})],
     [agent_id |-> "n", action_type |-> "file_read", target |-> "notes",
      hour |-> 22, decision |-> BlockedDecision("deny_read", {})]}
KindAction(k, action_id) ==
    BlockedAction(action_id, k.agent_id, k.action_type, k.target, k.hour)
HashedKeys ==
    {GetClusterKey(KindAction(k, 0), k.decision) :
        k \in {x \in Kinds : x.action_type \in ExtractorTypes}}
HashedFeatures ==
    {ExtractToolFeatures(KindAction(k, 0)) :
        k \in {x \in Kinds : x.action_type \in ExtractorTypes}}
HashValues == {0, 1}

\* PolicyLearner(learning_window) is constructed, in a process whose hash()
\* is some function of the texts.
LearnerInit(learning_window) ==
    /\ learner = PolicyLearner(learning_window)
    /\ hashes \in [cluster : [HashedKeys -> HashValues],
                    features : [HashedFeatures -> {0}]]
    /\ fed = <<>>
    /\ analyzedAt = {}
    /\ exported = Nothing

LearnerIdle ==
    /\ learner = PolicyLearner(DefaultLearningWindow)
    /\ hashes = [cluster |-> [k \in HashedKeys |-> 0],
                 features |-> [f \in HashedFeatures |-> 0]]
    /\ fed = <<>>
    /\ analyzedAt = {}
    /\ exported = Nothing

\* learner.add_blocked_action(action, decision) for a new action of kind k.
AddBlockedActionCall(k) ==
    /\ Len(fed) < MaxAdditions
    /\ Len(fed) >= MixedAdditions => k = Repeated
    /\ LET action == KindAction(k, Len(fed) + 1)
           r == AddBlockedAction(learner, action, k.decision, clock, hashes)
       IN /\ learner' = r.learner
          /\ fed' = Append(fed, [action |-> action, decision |-> k.decision])
          /\ analyzedAt' = IF r.analyzed THEN analyzedAt \cup {Len(fed) + 1}
                           ELSE analyzedAt
    /\ UNCHANGED <<hashes, exported>>
    /\ UNCHANGED nonLearnerVars

\* learner.export_suggestions(filepath)
ExportSuggestionsCall ==
    /\ ExportSuggestions(learner) # exported
    /\ exported' = IF ExportSuggestions(learner) = Nothing THEN exported
                   ELSE ExportSuggestions(learner)
    /\ UNCHANGED <<learner, hashes, fed, analyzedAt>>
    /\ UNCHANGED nonLearnerVars

LearningWindows == {3, 100, 1000}

NextLearner ==
    \/ \E k \in Kinds : AddBlockedActionCall(k)
    \/ ExportSuggestionsCall

\* learner.add_blocked_action(action, decision) for a new action of kind k,
\* of any kind among the first additions and again once an analysis is due.
AddBlockedActionLate(k) ==
    /\ Len(fed) < MaxAdditions
    /\ (Len(fed) >= MixedAdditions /\ Len(fed) < AnalysisPeriod) => k = Repeated
    /\ LET action == KindAction(k, Len(fed) + 1)
           r == AddBlockedAction(learner, action, k.decision, clock, hashes)
       IN /\ learner' = r.learner
          /\ fed' = Append(fed, [action |-> action, decision |-> k.decision])
          /\ analyzedAt' = IF r.analyzed THEN analyzedAt \cup {Len(fed) + 1}
                           ELSE analyzedAt
    /\ UNCHANGED <<hashes, exported>>
    /\ UNCHANGED nonLearnerVars

\* learner.clear_learning(), called once suggestions are stored.
ClearLearningCall ==
    /\ learner.learned_patterns # <<>>
    /\ learner' = ClearLearning(learner)
    /\ UNCHANGED <<hashes, fed, analyzedAt, exported>>
    /\ UNCHANGED nonLearnerVars

NextClearing ==
    \/ \E k \in Kinds : AddBlockedActionLate(k)
    \/ ClearLearningCall

\* ------------------------------------------------------ adapter actions
MaxToolCalls == 3
MaxWraps == 2

ToolNames == {"search", "notes"}
Tool(depth, has_run) == [depth |-> depth, has_run |-> has_run]

\* The tools as constructed: none wrapped; "notes" has no _run method.
AdapterInit ==
    /\ tools = [n \in ToolNames |-> Tool(0, n = "search")]
    /\ toolCalls = 0
    /\ lastTool = [called |-> FALSE]

NoteCall(via, r) == [called |-> TRUE, via |-> via, trail |-> r.trail, raised |-> r.raised]

\* A call of a function decorated with secure_tool.
SecureToolCall(outcome) ==
    /\ toolCalls < MaxToolCalls
    /\ toolCalls' = toolCalls + 1
    /\ lastTool' = NoteCall("secure_tool", SecureToolWrapper(outcome))
    /\ UNCHANGED tools
    /\ UNCHANGED nonAdapterVars

\* wrap_langchain_tool(tool, agent_id, goal): tool._run is replaced.
WrapLangchainTool(name) ==
    /\ tools[name].has_run
    /\ tools[name].depth < MaxWraps
    /\ tools' = [tools EXCEPT ![name].depth = @ + 1]
    /\ UNCHANGED <<toolCalls, lastTool>>
    /\ UNCHANGED nonAdapterVars

\* tool._run(...) of a tool wrap_langchain_tool has wrapped.
WrappedToolRun(name, outcomes) ==
    /\ toolCalls < MaxToolCalls
    /\ tools[name].depth >= 1
    /\ toolCalls' = toolCalls + 1
    /\ lastTool' = NoteCall("wrap_langchain_tool", SecureRun(tools[name].depth, outcomes))
    /\ UNCHANGED tools
    /\ UNCHANGED nonAdapterVars

\* SecureToolExecutor(tools).invoke(ToolInvocation(tool=name, ...)), the
\* executor built with the tools in `built`.
ExecutorInvokeCall(built, name, outcomes) ==
    /\ toolCalls < MaxToolCalls
    /\ toolCalls' = toolCalls + 1
    /\ lastTool' = NoteCall("SecureToolExecutor",
                            ExecutorInvoke([n \in built |-> tools[n]], name, outcomes))
    /\ UNCHANGED tools
    /\ UNCHANGED nonAdapterVars

OutcomeLists == [1..(MaxWraps + 2) -> InterceptOutcomes]

NextAdapters ==
    \/ \E o \in InterceptOutcomes : SecureToolCall(o)
    \/ \E n \in ToolNames : WrapLangchainTool(n)
    \/ \E n \in ToolNames, os \in OutcomeLists : WrappedToolRun(n, os)
    \/ \E b \in SUBSET ToolNames, n \in ToolNames, os \in OutcomeLists :
          ExecutorInvokeCall(b, n, os)

\* ------------------------------------------------------ history actions
MaxHistoryCalls == 1002
MixedCalls == 2

\* AdvancedRateLimiter.__init__, line 128: defaultdict(list).
HistoryIdle ==
    /\ historyLists = [a \in LimiterAgents |-> <<>>]
    /\ callsOf = [a \in LimiterAgents |-> <<>>]

TotalCalls == Len(callsOf["a1"]) + Len(callsOf["a2"])

\* check_rate_limit(agent_id, action_type, target), start to end, with the
\* history entry it leaves. After the first calls every call is a1's.
CheckAndRecord(agent_id, action_type, target) ==
    /\ TotalCalls < MaxHistoryCalls
    /\ TotalCalls >= MixedCalls => agent_id = "a1" /\ target = TargetLogs
    /\ \A t \in Threads : checking[t].pc = "idle"
    /\ LET acc == CheckFrom(DimensionsToCheck(agent_id, action_type, target), 1,
                            [store |-> store, results |-> NoResults,
                             allowed |-> TRUE, wait_times |-> <<>>],
                            clock)
           entry == HistoryEntry(TotalCalls + 1, action_type, target, acc)
       IN /\ store' = acc.store
          /\ lastCheck' = Details(acc, agent_id, action_type, target)
          /\ historyLists' = [historyLists EXCEPT
                                 ![agent_id] = RecordHistory(@, entry)]
          /\ callsOf' = [callsOf EXCEPT ![agent_id] = Append(@, entry)]
    /\ history' = [history EXCEPT ![agent_id] = Recorded(@)]
    /\ used' = Seen(agent_id, action_type, target)
    /\ UNCHANGED <<checking, checks, setups>>
    /\ UNCHANGED <<clock, advances, bucket, tbHist, window, swHist>>
    /\ UNCHANGED nonLimiterHistoryVars
    /\ UNCHANGED <<batchVars, lruThreadVars>>

HistoryCallers == {<<"a1", TargetLogs>>, <<"a2", TargetLogs>>, <<"a1", TargetApiKey>>}

NextHistory ==
    \E c \in HistoryCallers : CheckAndRecord(c[1], "tool_call", c[2])

\* -------------------------------------------------------- batch actions
MaxItems == 3
DefaultBatchSize == 10
DefaultMaxWait == Milli \div 10

BatchItems == 1..MaxItems
NotSubmitted == <<"none">>
Submitted == {i \in BatchItems : futures[i] # NotSubmitted}

BatchInit(batch_size, max_wait) ==
    /\ processor = AsyncBatchProcessor(batch_size, max_wait, clock)
    /\ futures = [i \in BatchItems |-> NotSubmitted]
    /\ tasks = 0
    /\ inProcess = <<>>
    /\ handed = [i \in BatchItems |-> 0]
    /\ batches = 0

BatchIdle == BatchInit(DefaultBatchSize, DefaultMaxWait)

\* How a call of _process_items goes on: it returns or raises with no await
\* on the way (as the one of the class does), or it awaits something.
ItemsOutcomes == {"results", "raise", "await"}

\* _process_batch, run by a task or by flush, until it ends or awaits.
ProcessBatchRuns(outcome) ==
    LET b == ProcessBatchBegin(processor)
        e == ProcessBatchEnd(b.processor, futures, b.taken, outcome, clock)
    IN /\ handed' = [i \in BatchItems |->
                        handed[i] + Len(SelectSeq(b.taken, LAMBDA x : x = i))]
       /\ batches' = IF b.taken = <<>> THEN batches ELSE batches + 1
       /\ IF b.taken = <<>>
          THEN processor' = b.processor /\ UNCHANGED <<futures, inProcess>>
          ELSE IF outcome = "await"
          THEN /\ processor' = b.processor
               /\ inProcess' = Append(inProcess, b.taken)
               /\ UNCHANGED futures
          ELSE /\ processor' = e.processor
               /\ futures' = e.futures
               /\ UNCHANGED inProcess

\* await add_to_batch(item), up to `await future`.
AddToBatchCall(item) ==
    /\ futures[item] = NotSubmitted
    /\ \A i \in BatchItems : i < item => futures[i] # NotSubmitted
    /\ LET r == AddToBatch(processor, item, clock)
       IN /\ processor' = r.processor
          /\ tasks' = IF r.created THEN tasks + 1 ELSE tasks
    /\ futures' = [futures EXCEPT ![item] = Pending]
    /\ UNCHANGED <<inProcess, handed, batches>>
    /\ UNCHANGED nonBatchVars

\* The event loop starts a _process_batch task.
ProcessBatchTask(outcome) ==
    /\ tasks > 0
    /\ tasks' = tasks - 1
    /\ ProcessBatchRuns(outcome)
    /\ UNCHANGED nonBatchVars

\* await flush(), called while there is something in the batch.
FlushCall(outcome) ==
    /\ processor.batch # <<>>
    /\ ProcessBatchRuns(outcome)
    /\ UNCHANGED tasks
    /\ UNCHANGED nonBatchVars

\* The _process_items a _process_batch awaits returns or raises.
ProcessItemsEnds(k, ended) ==
    /\ k \in 1..Len(inProcess)
    /\ LET e == ProcessBatchEnd(processor, futures, inProcess[k], ended, clock)
       IN /\ processor' = e.processor
          /\ futures' = e.futures
    /\ inProcess' = SubSeq(inProcess, 1, k - 1)
                     \o SubSeq(inProcess, k + 1, Len(inProcess))
    /\ UNCHANGED <<tasks, handed, batches>>
    /\ UNCHANGED nonBatchVars

BatchSizes == {1, 2}
BatchStep == DefaultMaxWait \div 2

TaskRuns == \E o \in ItemsOutcomes : ProcessBatchTask(o)
ItemsEnd == \E k \in 1..MaxItems, e \in {"results", "raise"} : ProcessItemsEnds(k, e)

NextBatch ==
    \/ \E i \in BatchItems : AddToBatchCall(i)
    \/ TaskRuns
    \/ \E o \in ItemsOutcomes : FlushCall(o)
    \/ ItemsEnd
    \/ Advance(BatchStep)

\* No flush: items are added, the event loop runs the tasks, time passes.
NextBatchAlone ==
    \/ \E i \in BatchItems : AddToBatchCall(i)
    \/ TaskRuns
    \/ ItemsEnd
    \/ Advance(BatchStep)

\* --------------------------------------------------- LRUCache threads
CacheStep == Milli

OutOfCall == [pc |-> "idle", raised |-> FALSE, agreed |-> TRUE]

LruThreadsIdle ==
    /\ lock = "free"
    /\ calling = [t \in Threads |-> OutOfCall]

LruCalls ==
    [op : {"get", "delete"}, key : {"k1", "k2"}, value : {"v1"}, ttl : {Nothing}]
    \cup [op : {"set"}, key : {"k1", "k2"}, value : {"v1"},
          ttl : {Nothing, Some(CacheStep \div 2)}]
    \cup [op : {"clear"}, key : {""}, value : {"v1"}, ttl : {Nothing}]

StatementsOf(c, call, at) ==
    CASE call.op = "get" -> GetStatements(c, call.key, at)
      [] call.op = "set" -> SetStatements(c, call.key, call.value, call.ttl, at)
      [] call.op = "delete" -> DeleteStatements(c, call.key)
      [] OTHER -> ClearStatements

\* The cache the call leaves when nothing else touches the cache meanwhile.
AloneOf(c, call, at) ==
    CASE call.op = "get" -> LruGet(c, call.key, at).lru
      [] call.op = "set" -> LruSet(c, call.key, call.value, call.ttl, at).lru
      [] call.op = "delete" -> LruDelete(c, call.key)
      [] OTHER -> LruClear(c)

\* Thread t calls get, set, delete or clear and comes to `with self.lock`.
LruCall(t, call) ==
    /\ cacheOps < MaxCacheOps
    /\ calling[t].pc = "idle"
    /\ cacheOps' = cacheOps + 1
    /\ calling' = [calling EXCEPT ![t] = [pc |-> "waiting", call |-> call]]
    /\ UNCHANGED <<lru, gets, usedAt, lastOp, lock>>
    /\ UNCHANGED nonLruVars

\* Thread t gets the lock and reads the conditions of its call.
LruEnter(t) ==
    /\ calling[t].pc = "waiting"
    /\ LockAvailable(lock, t)
    /\ LET todo == StatementsOf(lru, calling[t].call, clock)
       IN IF todo = <<>>
          THEN /\ calling' = [calling EXCEPT ![t] = OutOfCall]
               /\ UNCHANGED lock
          ELSE /\ lock' = t
               /\ calling' = [calling EXCEPT ![t] =
                      [pc |-> "inside", todo |-> todo, oldest_key |-> "",
                       alone |-> AloneOf(lru, calling[t].call, clock)]]
    /\ UNCHANGED cacheVars
    /\ UNCHANGED nonLruVars

\* Thread t runs its next statement; after the last one, or when the
\* statement raises, it leaves the `with` block and the lock is released.
LruStatement(t) ==
    /\ calling[t].pc = "inside"
    /\ LET r == RunStatement(lru, Head(calling[t].todo), calling[t].oldest_key)
           rest == Tail(calling[t].todo)
       IN /\ lru' = r.lru
          /\ IF r.raised \/ rest = <<>>
             THEN /\ lock' = "free"
                  /\ calling' = [calling EXCEPT ![t] =
                         [pc |-> "idle", raised |-> r.raised,
                          agreed |-> r.lru = calling[t].alone]]
             ELSE /\ UNCHANGED lock
                  /\ calling' = [calling EXCEPT ![t].todo = rest,
                                                ![t].oldest_key = r.oldest_key]
    /\ UNCHANGED <<cacheOps, gets, usedAt, lastOp>>
    /\ UNCHANGED nonLruVars

NextLruThreads ==
    \/ \E t \in Threads, call \in LruCalls : LruCall(t, call)
    \/ \E t \in Threads : LruEnter(t)
    \/ \E t \in Threads : LruStatement(t)
    \/ Advance(CacheStep)

FinalIdle == HistoryIdle /\ BatchIdle /\ LruThreadsIdle

\* The caches, the learner and the adapters as they are when nothing uses
\* them.
CacheIdle ==
    /\ LruInit(DefaultMaxsize, Nothing) /\ PolicyCacheInit /\ LearnerIdle
    /\ AdapterInit /\ FinalIdle

Maxsizes == {1, 2}
Ttls == {Nothing, Some(CacheStep \div 2)}
\* The (value, ttl) pairs set is called with.
SetArgs == {<<"v1", Nothing>>, <<"v2", Some(CacheStep \div 2)>>}

NextLru ==
    \/ \E k \in LruKeys : LruGetCall(k)
    \/ \E k \in LruKeys, a \in SetArgs : LruSetCall(k, a[1], a[2])
    \/ \E k \in LruKeys : LruDeleteCall(k)
    \/ LruClearCall
    \/ Advance(CacheStep)

\* Two threads share one logger.
NextConcurrent ==
    \/ \E t \in Threads, req \in Requests : AppendHash(t, req, "ALLOW", "none")
    \/ \E t \in Threads : AppendBuild(t)
    \/ \E t \in Threads : AppendWrite(t)
    \/ \E t \in Threads : AppendUpdate(t)
    \/ VerifyChainCall

\* Appends, a stop in the middle of one, and restarts.
NextRestart ==
    \/ \E req \in Requests, dec \in Verdicts, ciaa \in Ciaa :
          AppendEvent(req, dec, ciaa)
    \/ \E req \in Requests, dec \in Verdicts, ciaa \in Ciaa :
          CrashMidAppend(req, dec, ciaa)
    \/ NewLogger
    \/ VerifyChainCall

\* Appends, some of which fail in the write.
NextWriteFail ==
    \/ \E req \in Requests, dec \in Verdicts, ciaa \in Ciaa :
          AppendEvent(req, dec, ciaa)
    \/ \E req \in Requests, failure \in FailedWrites :
          AppendRaises(req, "DENY", "none", failure)
    \/ VerifyChainCall

Limits == 0..(MaxLog + 1)

NextRecent ==
    \/ \E req \in Requests, dec \in Verdicts, ciaa \in Ciaa :
          AppendEvent(req, dec, ciaa)
    \/ \E limit \in Limits : GetRecentEventsCall(limit)

Others == LoggerInit /\ LimiterIdle /\ CiaaInit /\ CacheIdle
InitPolicy == (\E f \in PolicyFiles : Construct(f)) /\ Others
InitRate == (\E f \in RateFiles : Construct(f)) /\ Others
InitAudit == Construct(MissingFile) /\ Others
InitLearned == (\E f \in LearnedFiles : Construct(f)) /\ Others
InitBucket ==
    /\ Construct(MissingFile) /\ LoggerInit /\ CiaaInit
    /\ \E c \in BucketConfigs : BucketInit(c[1], c[2])
    /\ CacheIdle
InitWindow ==
    /\ Construct(MissingFile) /\ LoggerInit /\ CiaaInit
    /\ \E c \in WindowConfigs : WindowInit(c[1], c[2])
    /\ CacheIdle

SpecPolicy == InitPolicy /\ [][NextPolicy]_vars
SpecRate == InitRate /\ [][NextRate]_vars
SpecLearned == InitLearned /\ [][NextLearned]_vars
SpecAudit == InitAudit /\ [][NextAudit]_vars
SpecTamper == InitAudit /\ [][NextTamper]_vars
SpecConcurrent == InitAudit /\ [][NextConcurrent]_vars
SpecRestart == InitAudit /\ [][NextRestart]_vars
SpecRecent == InitAudit /\ [][NextRecent]_vars
SpecWriteFail == InitAudit /\ [][NextWriteFail]_vars
SpecTruncate == InitAudit /\ [][NextTruncate]_vars
SpecBucketClock == InitBucket /\ [][NextBucketClock]_vars
SpecExhaust == InitAudit /\ [][NextExhaust]_vars
SpecHistory == InitAudit /\ [][NextHistory]_vars
InitBatch ==
    /\ Construct(MissingFile) /\ LoggerInit /\ LimiterIdle /\ CiaaInit
    /\ LruInit(DefaultMaxsize, Nothing) /\ PolicyCacheInit /\ LearnerIdle
    /\ AdapterInit /\ HistoryIdle /\ LruThreadsIdle
    /\ \E n \in BatchSizes : BatchInit(n, DefaultMaxWait)
SpecBatch == InitBatch /\ [][NextBatch]_vars
\* The event loop runs every task that is ready, an awaited _process_items
\* ends, and time passes.
SpecBatchFair ==
    /\ InitBatch /\ [][NextBatchAlone]_vars
    /\ WF_vars(TaskRuns) /\ WF_vars(ItemsEnd) /\ WF_vars(Advance(BatchStep))
SpecBucket == InitBucket /\ [][NextBucket]_vars
SpecWindow == InitWindow /\ [][NextWindow]_vars
SpecLimiter == InitAudit /\ [][NextLimiter]_vars
SpecSensitive == InitAudit /\ [][NextSensitive]_vars
SpecChecking == InitAudit /\ [][NextChecking]_vars
SpecCiaa == InitAudit /\ [][NextCiaa]_vars
InitLru ==
    /\ Construct(MissingFile) /\ LoggerInit /\ LimiterIdle /\ CiaaInit
    /\ PolicyCacheInit /\ LearnerIdle /\ AdapterInit /\ FinalIdle
    /\ \E m \in Maxsizes, ttl \in Ttls : LruInit(m, ttl)
SpecLru == InitLru /\ [][NextLru]_vars
SpecLruThreads == InitLru /\ [][NextLruThreads]_vars
InitLearner ==
    /\ Construct(MissingFile) /\ LoggerInit /\ LimiterIdle /\ CiaaInit
    /\ LruInit(DefaultMaxsize, Nothing) /\ PolicyCacheInit /\ AdapterInit /\ FinalIdle
    /\ \E w \in LearningWindows : LearnerInit(w)
SpecLearner == InitLearner /\ [][NextLearner]_vars
SpecClearing == InitLearner /\ [][NextClearing]_vars
SpecAdapters == InitAudit /\ [][NextAdapters]_vars
SpecDecisions == InitAudit /\ [][NextDecisions]_vars
SpecInvalidate == InitAudit /\ [][NextInvalidate]_vars
SpecCiaaThreads == InitAudit /\ [][NextCiaaThreads]_vars

\* ------------------------------------------------------- policy claims
Rules == loaded.file.rules
LoadSucceeded == loaded.file.kind = "yaml" /\ ~PolicyConfigRaises(loaded.file)

\* The walked policies that applied, matched and deny.
DenyHits ==
    {i \in 1..Len(last.trace) :
        /\ last.trace[i].applies
        /\ last.trace[i].match = "true"
        /\ policies[i].decision = "DENY"}

RECURSIVE RateFree(_)
RateFree(cond) ==
    \A i \in 1..Len(cond) :
        /\ cond[i].key # "rate_limit"
        /\ \A j \in 1..Len(cond[i].subs) : RateFree(cond[i].subs[j])

\* Rule k of the loaded file is a DENY rule that applies to the action and
\* whose condition, which reads no counter, matches it.
DeniesAction(k, action) ==
    /\ Rules[k].decision = "DENY"
    /\ PolicyApplies(Rules[k], action)
    /\ RateFree(Rules[k].condition)
    /\ ConditionsMatch(Rules[k], action, FreshMem, 0).res = "true"

Precedes(k1, k2) ==
    \/ Rules[k1].priority < Rules[k2].priority
    \/ Rules[k1].priority = Rules[k2].priority /\ k1 < k2

\* C2: after a successful load the list holds the file's rules in ascending
\* priority, rules of equal priority in file order; and when two DENY rules
\* both match an action, evaluate returns a policy id and never the id of the
\* one with the higher priority number, or of the later one in the file when
\* the priorities are equal.
C2_SortedStable ==
    LoadSucceeded =>
        /\ Len(policies) = Len(Rules)
        /\ \A i \in 1..Len(policies) : \A j \in i..Len(policies) :
              policies[i].priority <= policies[j].priority
        /\ \A k \in 1..Len(Rules) :
              SelectSeq(policies, LAMBDA r : r.priority = Rules[k].priority)
                 = SelectSeq(Rules, LAMBDA r : r.priority = Rules[k].priority)
        /\ (last.called /\ last.result # RAISE) =>
              \A k1 \in 1..Len(Rules) : \A k2 \in 1..Len(Rules) :
                 (/\ DeniesAction(k1, last.action)
                  /\ DeniesAction(k2, last.action)
                  /\ Precedes(k1, k2))
                 => last.result \notin {None, Rules[k2].id}

\* The load reordered the file, and of two matching DENY rules of equal
\* priority the earlier one in the file was returned.
C2_Witness ==
    /\ LoadSucceeded
    /\ policies # Rules
    /\ last.called
    /\ \E k1 \in 1..Len(Rules) : \E k2 \in (k1 + 1)..Len(Rules) :
          /\ DeniesAction(k1, last.action)
          /\ DeniesAction(k2, last.action)
          /\ Rules[k1].priority = Rules[k2].priority
          /\ last.result = Rules[k1].id

\* The key the `key` field names: the agent_id, the target or the action_id.
SameNamedKey(o1, o2) ==
    /\ o1.keyf = o2.keyf
    /\ CASE o1.keyf = "agent_id" -> o1.agent_id = o2.agent_id
         [] o1.keyf = "target" -> o1.target = o2.target
         [] OTHER -> o1.action_id = o2.action_id

\* C3: a rate_limit condition with max_per_minute = N > 0 is TRUE exactly when
\* the observations recorded for the key its `key` field names (the agent_id,
\* the target or the action_id), this one included, within the last
\* window_seconds number N or more.
C3_RateLimitPerKey ==
    \A i \in 1..Len(mem.obs) :
        LET o == mem.obs[i]
            recent == {j \in 1..i :
                          /\ SameNamedKey(mem.obs[j], o)
                          /\ mem.obs[j].time >= o.time - o.window}
        IN (o.res = "true") <=> (Cardinality(recent) >= o.max)

\* C4: evaluate never raises on a malformed regex.
C4_BadRegexSkipped == last.called => last.result # RAISE

\* C5: a file with exactly one malformed rule loads all its well-formed rules.
C5_MalformedRuleIsolated ==
    (/\ loaded.file.kind = "yaml"
     /\ Cardinality({i \in 1..Len(Rules) : ~PolicyRuleValid(Rules[i])}) = 1)
    => \A i \in 1..Len(Rules) :
          PolicyRuleValid(Rules[i]) =>
             \E j \in 1..Len(policies) : policies[j] = Rules[i]

\* C6: _load_policies never raises, and after a load (at construction or on
\* reload) of a missing or unparseable file the policy list is empty, whatever
\* it held before, and evaluate returns None.
C6_UnreadableFileEmpty ==
    /\ ~loaded.raised
    /\ loaded.file.kind \in {"missing", "garbage"} =>
          /\ policies = <<>>
          /\ last.called => last.result = None

\* A reload found the file unparseable while the list was not empty, and an
\* action was evaluated afterwards.
C6_Witness ==
    /\ loaded.file.kind = "garbage"
    /\ loaded.hadPolicies
    /\ reloadCount > 0
    /\ last.called

\* C7: an engine that reloaded an unchanged file and an engine freshly
\* constructed over it return the same result for every action of the same
\* stream.
C7_ReloadLikeFresh ==
    (last.called /\ twin.active) => last.result = last.twinResult

\* -------------------------------------------------------- audit claims
Event(i) == JsonLoads(logLines[i])

\* C8: from an absent log file, after any number of sequential appends by a
\* logger, verify_chain returns true.
C8_AppendsVerify ==
    /\ VerifyChain(logExists, logLines) = "true"
    /\ verifyResult \in {"none", "true"}

\* verify_chain was called on a log of several events.
C8_Witness == Len(logLines) >= 2 /\ verifyResult = "true"

\* C9: once a line of a verified file has been modified, verify_chain returns
\* false: it neither raises nor returns true.
C9_TamperDetected ==
    (tampered /\ verifyResult # "none") => verifyResult = "false"

IsChain ==
    /\ \A i \in 1..Len(logLines) :
          /\ logLines[i].form = "json"
          /\ Event(i).previous_hash =
                (IF i = 1 THEN GenesisHash ELSE Event(i - 1).hash)
          /\ Event(i).hash = CalculateHash(Event(i).data, Event(i).previous_hash)
    /\ last_hash = (IF logLines = <<>> THEN GenesisHash
                    ELSE Event(Len(logLines)).hash)

AppendOnly ==
    \/ logLines' = logLines
    \/ /\ Len(logLines') = Len(logLines) + 1
       /\ SubSeq(logLines', 1, Len(logLines)) = logLines

\* C10: in every state reached by appends the log is a chain (the first
\* previous_hash is the genesis hash, every later one is the hash of the line
\* before, every hash is the digest of its payload and previous_hash, and
\* last_hash is the hash of the last line), and a step only adds a line at
\* the end.
C10_ChainInvariant == [](IsChain) /\ [][AppendOnly]_vars

\* Three events have been appended.
C10_Witness == Len(logLines) = 3 /\ last_hash = Event(3).hash /\ ~tampered

\* C11: when no append is under way, no two lines of the log carry the same
\* previous_hash, the lines are in the order in which their appends began, and
\* verify_chain returns true.
C11_AppendsSerialized ==
    (\A t \in Threads : appending[t].pc = "idle") =>
        /\ \A i \in 1..Len(logLines) : \A j \in 1..Len(logLines) :
              i # j => Event(i).previous_hash # Event(j).previous_hash
        /\ \A i \in 1..Len(logLines) : \A j \in 1..Len(logLines) :
              i < j => Event(i).data.timestamp < Event(j).data.timestamp
        /\ VerifyChain(logExists, logLines) = "true"
        /\ verifyResult \in {"none", "true"}

\* The last line of the log that parses and holds a hash names the chain head.
RECURSIVE LastValidHash(_, _)
LastValidHash(lines, i) ==
    IF i = 0 THEN GenesisHash
    ELSE LET e == JsonLoads(lines[i])
         IN IF ~e.error /\ e.hasHash THEN e.hash
            ELSE LastValidHash(lines, i - 1)

\* C12: constructing an AuditLogger over the directory never raises, and the
\* new logger's last_hash is the hash of the last valid line of the file (the
\* genesis hash when there is none).
C12_RestartRecovers ==
    /\ logger # "raised"
    /\ logger = "up" /\ (\A t \in Threads : appending[t].pc = "idle") =>
          last_hash = LastValidHash(logLines, Len(logLines))

\* C13: get_recent_events(limit) returns the min(limit, n) events appended
\* last, the newest first; for limit = 0 it returns none.
C13_RecentNewestFirst ==
    recentCall.called =>
        /\ ~recentCall.raised
        /\ Len(recentCall.events) = Min(recentCall.limit, Len(logLines))
        /\ \A k \in 1..Len(recentCall.events) :
              recentCall.events[k] = Event(Len(logLines) + 1 - k)

\* ------------------------------------------------- rate limiter claims
\* C14: consume(n) refills to min(capacity, tokens + elapsed * rate); then, if
\* that is n or more, it deducts n and returns (true, 0), otherwise it deducts
\* nothing and returns (false, (n - tokens) / rate). From a fresh bucket with
\* no time elapsing, exactly the first `capacity` calls consume(1) succeed and
\* the next fails with wait 1 / rate.
C14_ConsumeContract ==
    tbHist.last.called =>
        LET l == tbHist.last
            b == l.before
            refilled == Min(b.capacity * Milli,
                            b.tokens + (l.now - b.last_update) * b.rate)
        IN /\ bucket.last_update = l.now
           /\ IF refilled >= l.tokens * Milli
              THEN /\ l.success
                   /\ WaitEq(l.wait_time, NoWait)
                   /\ bucket.tokens = refilled - l.tokens * Milli
              ELSE /\ ~l.success
                   /\ WaitEq(l.wait_time,
                             Wait(l.tokens * Milli - refilled, b.rate))
                   /\ bucket.tokens = refilled
           /\ (tbHist.ones /\ advances = 0) =>
                 /\ l.success <=> tbHist.calls <= b.capacity
                 /\ tbHist.calls = b.capacity + 1 =>
                       WaitEq(l.wait_time, Wait(Milli, b.rate))

\* Rate 10, capacity 20, no time elapsing: the 21st consume(1) has failed with
\* a wait of 0.1 s.
C14_Witness ==
    /\ tbHist.last.called
    /\ bucket.rate = 10 /\ bucket.capacity = 20
    /\ tbHist.ones /\ advances = 0 /\ tbHist.calls = 21
    /\ ~tbHist.last.success
    /\ WaitEq(tbHist.last.wait_time, Wait(Milli, 10))

\* C15: on a bucket with rate > 0 and capacity >= 1, as long as every call is
\* consume(1) and comes 1 / rate seconds or more after the call before it,
\* every call returns true.
C15_SteadyRateAdmitted ==
    (/\ tbHist.last.called
     /\ tbHist.steady
     /\ bucket.rate > 0
     /\ bucket.capacity >= 1) => tbHist.last.success

\* Three steady calls on a bucket of capacity 1: the second and third were
\* paid for by the refill alone.
C15_Witness ==
    /\ tbHist.last.called
    /\ tbHist.steady
    /\ bucket.capacity = 1
    /\ tbHist.calls >= 3
    /\ tbHist.last.success

\* The admissions made before the last add_request call.
PriorAdmitted ==
    IF swHist.last.success /\ ~swHist.last.raised
    THEN SubSeq(swHist.admitted, 1, Len(swHist.admitted) - 1)
    ELSE swHist.admitted

\* C16: the admitted requests whose times fall within any window of length
\* window_seconds never number more than max_requests; and a request that
\* comes when max_requests (>= 1) admissions lie within the window that ends
\* at it is rejected, leaves the deque holding exactly those admissions, and
\* is told to wait max(0, oldest + window_seconds - now).
C16_WindowBound ==
    swHist.calls > 0 =>
        LET span == window.window_seconds * Milli
            adm == swHist.admitted
            l == swHist.last
            inside == SelectSeq(PriorAdmitted, LAMBDA t : t >= l.now - span)
        IN /\ \A i \in 1..Len(adm) :
                 Cardinality({j \in 1..Len(adm) :
                                 adm[j] >= adm[i] /\ adm[j] <= adm[i] + span})
                    <= window.max_requests
           /\ (window.max_requests >= 1 /\ Len(inside) >= window.max_requests)
                 => /\ ~l.success
                    /\ ~l.raised
                    /\ window.requests = inside
                    /\ WaitEq(l.wait_time,
                              Wait(Max(0, inside[1] + span - l.now), 1))

\* With max_requests = 2, two requests were admitted, the third was rejected
\* and told to wait, and a later one was admitted again.
C16_Witness ==
    /\ swHist.calls = 4
    /\ window.max_requests = 2
    /\ Len(swHist.admitted) = 3
    /\ swHist.last.success
    /\ swHist.admitted[3] > swHist.admitted[1] + window.window_seconds * Milli

\* The dimensions the last check_rate_limit call went through.
Checked == {d \in Dimensions : lastCheck.results[d].checked}
Denied == {d \in Checked : ~lastCheck.results[d].allowed}

\* C17: check_rate_limit goes through global, per_agent and per_action, and
\* through sensitive exactly when the target holds a sensitive term; it
\* returns allowed = true exactly when every one of them admitted the request;
\* max_wait_time is 0 when it returns true and otherwise the largest wait time
\* among the dimensions that denied.
C17_AllDimensionsAdmit ==
    lastCheck.called =>
        /\ Checked = {"global", "per_agent", "per_action"}
                \cup (IF IsSensitive(lastCheck.target) THEN {"sensitive"}
                      ELSE {})
        /\ lastCheck.allowed <=> Denied = {}
        /\ lastCheck.allowed => WaitEq(lastCheck.max_wait_time, NoWait)
        /\ ~lastCheck.allowed =>
              /\ \E d \in Denied :
                    WaitEq(lastCheck.max_wait_time, lastCheck.results[d].wait_time)
              /\ \A d \in Denied :
                    ~WaitLess(lastCheck.max_wait_time,
                              lastCheck.results[d].wait_time)

\* per_agent and per_action both denied, global and sensitive admitted, and
\* the wait returned is that of per_action, longer than that of per_agent.
C17_Witness ==
    /\ lastCheck.called
    /\ ~lastCheck.allowed
    /\ Denied = {"per_agent", "per_action"}
    /\ Checked = Dimensions
    /\ WaitLess(lastCheck.results["per_agent"].wait_time,
                lastCheck.results["per_action"].wait_time)
    /\ WaitEq(lastCheck.max_wait_time, lastCheck.results["per_action"].wait_time)

\* C18: on a limiter nobody has set up, with no time elapsing and every
\* request coming from an agent and an action type of its own, the limiter of
\* a sensitive target is made from 1 request/s with burst 3, and it admits the
\* first 3 requests to that target and denies the 4th.
C18_SensitiveBurstThree ==
    (/\ lastCheck.called
     /\ setups = 0
     /\ advances = 0
     /\ Cardinality(used.agents) = checks
     /\ Cardinality(used.types) = checks
     /\ IsSensitive(lastCheck.target)) =>
        /\ lastCheck.results["sensitive"].checked
        /\ store.configs[Key("sensitive", lastCheck.target)]
              = RateLimitConfig(1, 3, 60, "token_bucket")
        /\ lastCheck.results["sensitive"].allowed
              <=> used.targets[lastCheck.target] <= 3

\* The limiter objects made for a key.
ObjectsOf(k) == {h \in 1..Len(store.heap) : store.heap[h].key = k}
RECURSIVE Sum(_, _)
Sum(f, S) ==
    IF S = {} THEN 0
    ELSE LET x == CHOOSE y \in S : TRUE IN f[x] + Sum(f, S \ {x})
AdmittedBy(k) ==
    Sum([h \in 1..Len(store.heap) |-> store.heap[h].admitted], ObjectsOf(k))

\* C19: under concurrent check_rate_limit calls with no time elapsing, one
\* limiter object is made for a key, no object that is not the key's limiter
\* has admitted a request, and the requests admitted for a key number no more
\* than the burst size of its dimension.
C19_OneLimiterPerKey ==
    \A k \in LimiterKeys :
        /\ Cardinality(ObjectsOf(k)) <= 1
        /\ \A h \in ObjectsOf(k) :
              store.limiters[k] # h => store.heap[h].admitted = 0
        /\ AdmittedBy(k) <= DefaultConfigFor(k[1]).burst_size

\* --------------------------------------------------------- CIAA claims
\* C20: for each (agent_id, action_type, target), with L the limit of the
\* action type: the stored timestamp list never holds more than L entries; no
\* minute holds more than L recorded calls; a call that comes when L recorded
\* calls lie within the last minute yields an A violation; and a call that
\* yields an entry "A" is not recorded.
C20_AvailabilityCap ==
    /\ \A a \in CiaaActions :
          /\ Len(action_counts[CiaaKey(a)]) <= GetRateLimit(a)
          /\ \A i \in 1..Len(passed[a]) :
                Cardinality({j \in 1..Len(passed[a]) :
                                /\ passed[a][j] >= passed[a][i]
                                /\ passed[a][j] < passed[a][i] + Minute})
                   <= GetRateLimit(a)
    /\ lastEval.called =>
          /\ lastEval.before >= GetRateLimit(lastEval.action) =>
                lastEval.hasA /\ lastEval.A # NoViolation
          /\ lastEval.hasA => ~lastEval.recorded

\* C21: under any interleaving of evaluate calls of two threads for one key,
\* no recorded call is lost (once no call is in progress the list of the key
\* holds every call that passed the check within the minute) and the number
\* of calls that passed within the minute never exceeds the cap.
C21_CountersGuarded ==
    \A a \in CiaaActions :
        /\ RecentlyPassed(a, clock) <= GetRateLimit(a)
        /\ (\A t \in Threads : evaluating[t] = Idle) =>
              RecentlyPassed(a, clock) <=
                 Len(SelectSeq(action_counts[CiaaKey(a)],
                               LAMBDA ts : clock - ts < Minute))

\* -------------------------------------------------------- cache claims
\* C22: get returns a value only for an entry that is present and not
\* expired, and then the key becomes the most recently used one; a get that
\* finds an expired entry removes it, counts a miss and returns nothing; and
\* hits + misses is the number of get calls since construction or clear.
C22_GetContract ==
    /\ lru.hits + lru.misses = gets
    /\ lastOp.op = "get" =>
          LET b == lastOp.before
              k == lastOp.key
              live == k \in DOMAIN b.cache /\ ~IsExpired(b.cache[k], lastOp.at)
          IN /\ live => /\ lastOp.returns = Hit(b.cache[k].value)
                        /\ lru.order[Len(lru.order)] = k
                        /\ DOMAIN lru.cache = DOMAIN b.cache
                        /\ lru.hits = b.hits + 1 /\ lru.misses = b.misses
             /\ ~live => /\ lastOp.returns = Miss
                         /\ k \notin DOMAIN lru.cache
                         /\ DOMAIN lru.cache = DOMAIN b.cache \ {k}
                         /\ lru.misses = b.misses + 1 /\ lru.hits = b.hits

\* A get has just returned the value of the key that was the least recently
\* used of two, after an earlier get had missed.
C22_Witness ==
    /\ lastOp.op = "get"
    /\ lastOp.returns # Miss
    /\ Len(lastOp.before.order) = 2
    /\ lastOp.before.order[1] = lastOp.key
    /\ lru.misses >= 1

\* C23: with maxsize >= 1 the cache never holds more than maxsize entries; a
\* set of a new key into a full cache removes exactly one entry, the one whose
\* last set or successful read is the oldest; a set of an existing key removes
\* nothing and makes the key the most recently used.
C23_LruBound ==
    lru.maxsize >= 1 =>
      /\ Cardinality(DOMAIN lru.cache) <= lru.maxsize
      /\ lastOp.op = "set" =>
            LET b == lastOp.before
                k == lastOp.key
                held == DOMAIN b.cache
            IN /\ ~lastOp.raised
               /\ lru.order[Len(lru.order)] = k
               /\ IF k \in held
                  THEN DOMAIN lru.cache = held
                  ELSE IF Cardinality(held) >= b.maxsize
                  THEN \E victim \in held :
                          /\ DOMAIN lru.cache = (held \ {victim}) \cup {k}
                          /\ \A o \in held : lastOp.used[victim] <= lastOp.used[o]
                  ELSE DOMAIN lru.cache = held \cup {k}

\* A new key has just been set into a full cache of two entries, after a get
\* had changed which of the two was used last.
C23_Witness ==
    /\ lastOp.op = "set"
    /\ lastOp.key \notin DOMAIN lastOp.before.cache
    /\ Cardinality(DOMAIN lastOp.before.cache) = 2
    /\ lastOp.before.maxsize = 2
    /\ lastOp.before.hits >= 1
    /\ Cardinality(DOMAIN lru.cache) = 2

\* C24: a get_action_decision for a fingerprint whose decision was stored
\* within the last 300 s returns that (decision, reason), whatever was set or
\* read for other fingerprints since; and a get returns nothing but the
\* decision stored for its own fingerprint.
C24_DecisionWithinTtl ==
    lastCall.op = "get_action_decision" =>
        LET d == decided[lastCall.fp]
        IN /\ (d # Nothing /\ lastCall.at - d[1].at <= ActionCacheTtl)
                => lastCall.returns = Hit(d[1].value)
           /\ lastCall.returns # Miss
                => d # Nothing /\ lastCall.returns = Hit(d[1].value)

\* C25: invalidate_agent(a) removes every action-decision entry stored for
\* agent a, removes no entry stored for another agent, and leaves the
\* policy-result and rate-limit caches as they were.
C25_InvalidateTargeted ==
    lastCall.op = "invalidate_agent" =>
        LET b == lastCall.before
        IN /\ \A k \in DOMAIN b.action_cache.cache :
                 IF lastCall.owner[k][1].agent_id = lastCall.agent_id
                 THEN k \notin DOMAIN pcache.action_cache.cache
                 ELSE /\ k \in DOMAIN pcache.action_cache.cache
                      /\ pcache.action_cache.cache[k] = b.action_cache.cache[k]
           /\ pcache.policy_cache = b.policy_cache
           /\ pcache.rate_limit_cache = b.rate_limit_cache

\* ------------------------------------------------------ learner claims
\* The pairs of a list of cluster members.
PairsOf(members) ==
    [j \in 1..Len(members) |->
        [action |-> members[j].action, decision |-> members[j].decision]]

\* The last n items of a list, all of it when it is shorter.
MostRecent(list, n) == SubSeq(list, Len(list) - Min(Len(list), n) + 1, Len(list))

\* C26: after any sequence of add_blocked_action calls blocked_actions holds
\* at most learning_window entries, exactly the most recent
\* min(k, learning_window) of the k pairs added, in arrival order; and every
\* cluster holds the most recent 50, at most, of the pairs added with its key.
C26_WindowFifo ==
    /\ Len(learner.blocked_actions) <= learner.learning_window
    /\ learner.blocked_actions = MostRecent(fed, learner.learning_window)
    /\ \A i \in 1..Len(fed) :
          ClusterIndex(learner.action_clusters,
                       GetClusterKey(fed[i].action, fed[i].decision)) # 0
    /\ \A i \in 1..Len(learner.action_clusters) :
          LET c == learner.action_clusters[i]
              mine == SelectSeq(fed, LAMBDA e : GetClusterKey(e.action, e.decision) = c.key)
          IN /\ Len(c.members) <= ClusterCap
             /\ PairsOf(c.members) = MostRecent(mine, ClusterCap)

\* More pairs were added than the window of 3 holds, and more than 50 of
\* them with one key.
C26_Witness ==
    /\ learner.learning_window = 3
    /\ Len(fed) > ClusterCap + MixedAdditions
    /\ Len(learner.blocked_actions) = 3
    /\ \E i \in 1..Len(learner.action_clusters) :
          Len(learner.action_clusters[i].members) = ClusterCap

\* C27: _analyze_patterns is called exactly at the 100th, 200th, ...
\* addition and at no other, for every learning_window >= 1.
C27_AnalysisEveryHundred ==
    learner.learning_window >= 1 =>
        analyzedAt = {n \in 1..Len(fed) : n % AnalysisPeriod = 0}

\* C28: every suggestion in learned_patterns has a confidence in [0, 1], and
\* one derived from a cluster of s actions has min(1.0, s / 10).
C28_ConfidenceInUnitRange ==
    \A i \in 1..Len(learner.learned_patterns) :
        LET p == learner.learned_patterns[i]
        IN /\ RatioLeq(Ratio(0, 1), p.confidence)
           /\ RatioLeq(p.confidence, Ratio(1, 1))
           /\ p.source = "cluster" =>
                 /\ RatioLeq(p.confidence, Ratio(Min(10, p.blocked_count), 10))
                 /\ RatioLeq(Ratio(Min(10, p.blocked_count), 10), p.confidence)

\* A policy written for a cluster, as a rule of a policy file; the rule is
\* named "learned" whatever the number in its id.
ExportedRule(policy) ==
    PolicyRule("learned", {policy.applies_to[i] : i \in 1..Len(policy.applies_to)},
               <<CTargetStr(policy.condition.target)>>,
               policy.decision, policy.priority)

\* Whether a PolicyEngine that loaded the policy denies the action.
ExportDenies(policy, action) ==
    LET file == YamlFile(<<ExportedRule(policy)>>)
        engine == LoadPolicies(<<>>, file).policies
        asked == ActionRequest(action.agent_id, action.action_type, action.target,
                               action.action_id, NoParams)
    IN EvaluateOn(engine, asked, FreshMem, 0).result \notin {None, RAISE}

\* The suggestions of get_suggestions(0.5) that come from the cluster of the
\* first pair fed.
SuggestedForFirst ==
    LET suggestions == GetSuggestions(learner, Ratio(1, 2))
        id == <<"pattern", hashes.cluster[GetClusterKey(fed[1].action, fed[1].decision)]>>
    IN {suggestions[i] : i \in {j \in 1..Len(suggestions) :
                                   /\ suggestions[j].source = "cluster"
                                   /\ suggestions[j].id = id}}

\* Only the repeated action has been fed, n times.
OnlyRepeated(n) ==
    /\ Len(fed) = n
    /\ \A i \in 1..Len(fed) :
          /\ fed[i].decision = Repeated.decision
          /\ fed[i].action = KindAction(Repeated, i)

\* C29: once 10 identical blocked actions have been fed to a fresh learner,
\* get_suggestions(0.5) holds a suggestion for their cluster, and the policy
\* export_suggestions writes for it, loaded into a PolicyEngine, denies the
\* action.
C29_TenIdenticalSuggest ==
    OnlyRepeated(10) =>
        /\ SuggestedForFirst # {}
        /\ ExportSuggestions(learner) # Nothing
        /\ \A sg \in SuggestedForFirst :
              /\ \E j \in 1..Len(ExportSuggestions(learner)[1]) :
                    ExportSuggestions(learner)[1][j] = sg.suggested_policy
              /\ ExportDenies(sg.suggested_policy, fed[1].action)

\* ------------------------------------------------------ adapter claims
\* The places of the events of a kind in a trail.
Places(trail, ev) == {i \in 1..Len(trail) : trail[i].ev = ev}

\* C30: in a call through secure_tool, wrap_langchain_tool's secure_run or
\* SecureToolExecutor.invoke the underlying function or tool is executed only
\* after runtime.intercept has returned allow = true in that call; when a
\* decision has allow = false the call raises SecurityViolationError and the
\* function or tool is not executed.
C30_ExecutedOnlyWhenAllowed ==
    lastTool.called =>
        LET trail == lastTool.trail
        IN /\ \A e \in Places(trail, "execute") :
                 /\ \E i \in Places(trail, "intercept") : i < e
                 /\ \A i \in Places(trail, "intercept") :
                       i < e /\ trail[i].outcome = "allow"
           /\ (\E i \in Places(trail, "intercept") : trail[i].outcome = "deny") =>
                 /\ lastTool.raised = "SecurityViolationError"
                 /\ Places(trail, "execute") = {}

\* A call through the executor was allowed by the executor and refused by
\* the wrapper of the tool, which was not executed.
C30_Witness ==
    /\ lastTool.called
    /\ lastTool.via = "SecureToolExecutor"
    /\ Len(lastTool.trail) = 2
    /\ lastTool.trail[1] = Intercepted("allow")
    /\ lastTool.trail[2] = Intercepted("deny")
    /\ lastTool.raised = "SecurityViolationError"

\* -------------------------------------------------- later audit claims
\* C31: an append whose write raises leaves last_hash as it was, so that
\* last_hash is the hash of the last event in the file (the genesis hash when
\* there is none) and verify_chain returns true, after the failure and after
\* every later append.
C31_FailedWriteKeepsChain ==
    /\ last_hash = LastValidHash(logLines, Len(logLines))
    /\ VerifyChain(logExists, logLines) = "true"
    /\ verifyResult \in {"none", "true"}

\* ------------------------------------------------ later limiter claims
\* C34: after every consume(n) call with n >= 1, whatever the clock readings
\* (rising, equal or falling from one call to the next), the bucket holds
\* between 0 and `capacity` tokens.
C34_TokensInRange ==
    /\ 0 <= bucket.tokens
    /\ bucket.tokens <= bucket.capacity * Milli

\* The limiter object of a key in a store; the requests it has admitted.
ObjectAt(st, key) == st.heap[st.limiters[key]].obj
AdmittedAt(st, key) ==
    IF st.limiters[key] = 0 THEN 0 ELSE st.heap[st.limiters[key]].admitted

\* The key of a dimension in a check_rate_limit call.
KeyIn(call, d) ==
    CASE d = "global" -> Key(d, Ident("all"))
      [] d = "per_agent" -> Key(d, Ident(call.agent_id))
      [] d = "per_action" -> Key(d, Ident(call.action_type))
      [] OTHER -> Key(d, call.target)

\* What a limiter that admits a request at time t holds afterwards: a token
\* less than its refill, or the request's time as its newest slot.
TakenFrom(st, key, after, t) ==
    IF after.kind = "TokenBucket"
    THEN after.tokens =
            (IF st.limiters[key] = 0 THEN after.capacity * Milli
             ELSE Refill(ObjectAt(st, key), t)) - Milli
    ELSE after.requests # <<>> /\ after.requests[Len(after.requests)] = t

\* C35: a check_rate_limit call goes through every applicable dimension
\* whatever the earlier ones answered, and every dimension that admits the
\* request keeps the token or the slot it gave, also when another dimension
\* denies the request.
C35_NoShortCircuitNoRollback ==
    [][checks' = checks + 1 =>
         LET call == lastCheck'
         IN \A d \in Dimensions :
              /\ call.results[d].checked <=>
                    (d = "sensitive" => IsSensitive(call.target))
              /\ (call.results[d].checked /\ call.results[d].allowed) =>
                    /\ AdmittedAt(store', KeyIn(call, d))
                          = AdmittedAt(store, KeyIn(call, d)) + 1
                    /\ TakenFrom(store, KeyIn(call, d),
                                 ObjectAt(store', KeyIn(call, d)), clock)]_vars

\* With no time passing, one request was admitted and the next were denied
\* by per_action; they used up the two slots of the agent's sliding window,
\* and now per_agent denies as well.
C35_Witness ==
    /\ lastCheck.called /\ advances = 0
    /\ Denied = {"per_agent", "per_action"}
    /\ AdmittedAt(store, Key("per_action", Ident("tool_call"))) = 1
    /\ AdmittedAt(store, Key("per_agent", Ident("a1"))) = 2
    /\ ObjectAt(store, Key("per_agent", Ident("a1"))).kind = "SlidingWindow"
    /\ AdmittedAt(store, Key("global", Ident("all"))) = 3

\* C32: after any sequence of check_rate_limit calls the history of each
\* agent holds at most 1000 entries, which are the entries of the agent's
\* most recent calls in call order, one per call, allowed or denied.
C32_HistoryRolling ==
    \A a \in LimiterAgents :
        /\ Len(historyLists[a]) <= HistoryCap
        /\ historyLists[a] = MostRecent(callsOf[a], HistoryCap)
        /\ history[a] = Len(historyLists[a])

\* The agent has called more than 1000 times, and its history holds allowed
\* and denied calls.
C32_Witness ==
    /\ Len(callsOf["a1"]) > HistoryCap
    /\ Len(historyLists["a1"]) = HistoryCap
    /\ historyLists["a1"][1].timestamp > 1
    /\ \E i \in 1..HistoryCap : historyLists["a1"][i].allowed
    /\ \E i \in 1..HistoryCap : ~historyLists["a1"][i].allowed
    /\ lastCheck.called /\ ~lastCheck.allowed

\* --------------------------------------------------------- batch claims
\* C33: every add_to_batch call eventually returns the result of its item:
\* a future that is pending is eventually resolved, whether or not another
\* item is added and whether or not a batch was in process when it was added.
C33_EveryItemProcessed ==
    \A i \in BatchItems : (futures[i] = Pending) ~> (futures[i] = ResultOf(i) \/ futures[i] = BatchException)

C36_OrderMatchesCache ==
    /\ lock = "free" =>
          /\ Len(lru.order) = Cardinality(DOMAIN lru.cache)
          /\ {lru.order[i] : i \in 1..Len(lru.order)} = DOMAIN lru.cache
    /\ \A t \in Threads :
          calling[t].pc = "idle" => ~calling[t].raised /\ calling[t].agreed

\* A thread waits at the lock while the other is between taking a key out of
\* the cache and taking it out of the list.
C36_Witness ==
    /\ lock = "w1"
    /\ calling["w1"].pc = "inside"
    /\ calling["w2"].pc = "waiting"
    /\ Len(lru.order) > Cardinality(DOMAIN lru.cache)

\* -------------------------------------------------- later policy claims
\* A policy whose condition is not empty and holds only keys that
\* _conditions_match has no branch for.
OnlyUnknownKeys(policy) ==
    /\ policy.condition # <<>>
    /\ \A i \in 1..Len(policy.condition) : policy.condition[i].key \notin KnownKeys

\* C37: a condition made only of keys _conditions_match does not know
\* matches every action: a policy with such a condition that applies to the
\* action's type is found to match whoever the agent is, and when it is a DENY
\* policy the action is denied, by it when the walk comes to it.
C37_UnknownKeysMatchAll ==
    (last.called /\ last.result # RAISE) =>
        \A i \in 1..Len(policies) :
            (OnlyUnknownKeys(policies[i]) /\ PolicyApplies(policies[i], last.action)) =>
                /\ i <= Len(last.trace) => last.trace[i].match = "true"
                /\ policies[i].decision = "DENY" =>
                      /\ last.result # None
                      /\ i <= Len(last.trace) => last.result = policies[i].id

\* The rule suggested for agent a2 has denied an action of agent a1.
C37_Witness ==
    /\ last.called
    /\ last.action.agent_id = "a1"
    /\ last.result = "learned_agent"
    /\ \E i \in 1..Len(policies) :
          /\ i = Len(last.trace)
          /\ policies[i].id = last.result
          /\ policies[i].condition = <<CNamed("agent_id", <<"a2">>)>>

\* ------------------------------------------------------ pattern store claims
\* Every suggestion stored before a step is stored after it, at its place and
\* with every field as it was.
StoreKept ==
    /\ Len(learner'.learned_patterns) >= Len(learner.learned_patterns)
    /\ \A i \in 1..Len(learner.learned_patterns) :
          learner'.learned_patterns[i] = learner.learned_patterns[i]

\* C38: a step that is not a clear_learning call removes no suggestion from
\* learned_patterns and changes no field of a stored suggestion (confidence,
\* blocked_count, example_actions, suggested_policy), also when the cluster
\* of the suggestion has grown since it was stored.
C38_StoreOnlyGrows == [][ClearLearningCall \/ StoreKept]_vars

\* The cluster of a stored suggestion.
ClustersOf(p) ==
    {i \in 1..Len(learner.action_clusters) :
        /\ learner.action_clusters[i].members[1].action.action_type \in ExtractorTypes
        /\ <<"pattern", hashes.cluster[learner.action_clusters[i].key]>> = p.id}

\* A second analysis has run while a suggestion was stored whose cluster has
\* more members than when it was stored.
C38_Witness ==
    /\ Cardinality(analyzedAt) >= 2
    /\ Len(fed) \in analyzedAt
    /\ \E i \in 1..Len(learner.learned_patterns) :
          LET p == learner.learned_patterns[i]
          IN /\ p.source = "cluster"
             /\ Cardinality(ClustersOf(p)) = 1
             /\ \A c \in ClustersOf(p) :
                   Len(learner.action_clusters[c].members) > p.blocked_count

\* ------------------------------------------------------ truncation claims
\* C39: when the last k >= 1 lines of a log on which verify_chain returns
\* true are deleted, all of them included, verify_chain returns true on the
\* file that is left.
C39_PrefixVerifies ==
    [][(~tampered /\ tampered') =>
          VerifyChain(logExists', logLines') = "true"]_vars

\* verify_chain has returned true on a log that has lost its tail and still
\* has a line, while the logger's last_hash is that of a deleted line.
C39_Witness ==
    /\ tampered
    /\ verifyResult = "true"
    /\ logLines # <<>>
    /\ last_hash # JsonLoads(logLines[Len(logLines)]).hash

====
